---- MODULE Spec2Model ----
(***************************************************************************)
(* remix-validity-state: the validation engine (builtInValidations,        *)
(* validateInput, validateServerFormData) and the live validation session  *)
(* of one form control (useValidatedControl).                              *)
(*                                                                         *)
(* Strings are sequences of one-character strings, so that length, the     *)
(* conversions String(x) / Number(s) and RegExp tests are computed, not    *)
(* assumed.                                                                *)
(***************************************************************************)
EXTENDS Integers, Sequences, FiniteSets, TLC

VARIABLES
    viArgs,          \* validateInput: the arguments of the call
    viRes,           \* validateInput: what the returned promise settles to
    msgArgs,         \* getCurrentErrorMessages: the arguments of the call
    msgRes,          \* getCurrentErrorMessages: what it returns
    loop,            \* validateInput: where its loop over the custom validations stands
    formData,        \* validateServerFormData: the submission (name -> entries)
    formDefinition,  \* validateServerFormData: formDefinition.inputs
    serverCustomValidations, \* validateServerFormData: server-only custom validations
    pc,              \* validateServerFormData: per field, where its callback stands
    inputs,          \* validateServerFormData: the inputs map being filled
    submittedValues, \* validateServerFormData: the submittedValues map being filled
    valid,           \* validateServerFormData: the aggregate flag
    returned,        \* validateServerFormData: "pending" | "resolved" | "rejected"
    calls,           \* validateServerFormData: the locals of calls that run concurrently
    sessionForm,     \* live session: formDefinition.inputs of the rendered form
    serverFormInfo,  \* live session: the serverFormInfo prop / context value
    control,         \* live session: per field, the state and refs of useValidatedControl
    elValue,         \* live session: per field, the value of the DOM control
    uncommitted,     \* live session: controls edited since their last change event
    mounted,         \* live session: have the mount effects run
    hook             \* one useValidatedControl call: its options and how its render ended

validateVars == <<viArgs, viRes, msgArgs, msgRes, loop>>
serverVars == <<formData, formDefinition, serverCustomValidations, pc, inputs,
                submittedValues, valid, returned, calls>>
sessionVars == <<sessionForm, serverFormInfo, control, elValue, uncommitted, mounted, hook>>
vars == <<validateVars, serverVars, sessionVars>>

----------------------------------------------------------------------------
(* Bounds *)

\* longest field value that is enumerated
MaxLen == 2

\* most entries submitted under one field name
MaxEntries == 3

\* most validations of one control that are awaited at the same time
MaxInFlight == 2

----------------------------------------------------------------------------
(* Strings and numbers *)

Alphabet == {"5", "-", "a"}

RECURSIVE StringsUpTo(_)
StringsUpTo(n) ==
    IF n = 0 THEN {<<>>}
    ELSE LET shorter == StringsUpTo(n - 1)
         IN  shorter \cup {Append(s, c) : s \in {t \in shorter : Len(t) = n - 1}, c \in Alphabet}

Bro == <<"B", "r", "o">>
Brophy == <<"B", "r", "o", "p", "h", "y">>

Values == StringsUpTo(MaxLen) \cup {Bro, Brophy}

\* s.toLowerCase()
ToLowerCase(s) == [i \in 1..Len(s) |-> IF s[i] = "B" THEN "b" ELSE s[i]]

DigitChars == {"0", "1", "2", "3", "4", "5", "6", "7", "8", "9"}
LetterChars == {"a", "b", "h", "o", "p", "r", "y", "B"}

DigitVal(c) ==
    CASE c = "0" -> 0 [] c = "1" -> 1 [] c = "2" -> 2 [] c = "3" -> 3
      [] c = "4" -> 4 [] c = "5" -> 5 [] c = "6" -> 6 [] c = "7" -> 7
      [] c = "8" -> 8 [] c = "9" -> 9

DigitChar(d) ==
    CASE d = 0 -> "0" [] d = 1 -> "1" [] d = 2 -> "2" [] d = 3 -> "3"
      [] d = 4 -> "4" [] d = 5 -> "5" [] d = 6 -> "6" [] d = 7 -> "7"
      [] d = 8 -> "8" [] d = 9 -> "9"

IsDigits(s) == s # <<>> /\ \A i \in 1..Len(s) : s[i] \in DigitChars

RECURSIVE DigitsToNat(_)
DigitsToNat(s) ==
    IF s = <<>> THEN 0
    ELSE 10 * DigitsToNat(SubSeq(s, 1, Len(s) - 1)) + DigitVal(s[Len(s)])

RECURSIVE NatToDigits(_)
NatToDigits(n) ==
    IF n < 10 THEN <<DigitChar(n)>>
    ELSE Append(NatToDigits(n \div 10), DigitChar(n % 10))

\* a JavaScript number: NaN or an integer
NaN == [nan |-> TRUE, n |-> 0]
Num(n) == [nan |-> FALSE, n |-> n]

\* Number(s) for a string s
StringToNumber(s) ==
    IF s = <<>> THEN Num(0)
    ELSE IF IsDigits(s) THEN Num(DigitsToNat(s))
    ELSE IF s[1] = "-" /\ IsDigits(Tail(s)) THEN Num(0 - DigitsToNat(Tail(s)))
    ELSE NaN

\* String(x) for a number x
NumberToString(x) ==
    IF x.nan THEN <<"N", "a", "N">>
    ELSE IF x.n < 0 THEN <<"-">> \o NatToDigits(0 - x.n)
    ELSE NatToDigits(x.n)

\* x >= y and x <= y on JavaScript numbers: false as soon as one side is NaN
NumGe(x, y) == ~x.nan /\ ~y.nan /\ x.n >= y.n
NumLe(x, y) == ~x.nan /\ ~y.nan /\ x.n <= y.n

----------------------------------------------------------------------------
(* Attribute values: literals, derivation functions, null / undefined *)

NullV == [t |-> "null", n |-> 0, s |-> <<>>]
UndefV == [t |-> "undefined", n |-> 0, s |-> <<>>]
BoolV(b) == [t |-> IF b THEN "true" ELSE "false", n |-> 0, s |-> <<>>]
NumV(n) == [t |-> "number", n |-> n, s |-> <<>>]
NaNV == [t |-> "NaN", n |-> 0, s |-> <<>>]
StrV(s) == [t |-> "string", n |-> 0, s |-> s]
FileV == [t |-> "file", n |-> 0, s |-> <<>>]
\* a derivation function (fd) => ..., named by s[1]
FnV(f) == [t |-> "function", n |-> 0, s |-> <<f>>]

\* JavaScript truthiness, as used by `x || null` and `x ? a : b`
Truthy(v) ==
    \/ v.t \in {"true", "function", "file"}
    \/ v.t = "number" /\ v.n # 0
    \/ v.t = "string" /\ v.s # <<>>

\* x === null
IsNullishStrict(v) == v.t = "null"

\* x == null
IsNullish(v) == v.t \in {"null", "undefined"}

\* String(x)
ToStr(v) ==
    CASE v.t = "string" -> v.s
      [] v.t = "number" -> NumberToString(Num(v.n))
      [] v.t = "NaN" -> NumberToString(NaN)
      [] v.t = "true" -> <<"t", "r", "u", "e">>
      [] v.t = "false" -> <<"f", "a", "l", "s", "e">>
      [] OTHER -> <<"[", "o", "b", "j", "e", "c", "t", "]">>

\* the value of a number-typed expression Number(s), as an attribute value
NumberV(s) == LET x == StringToNumber(s) IN IF x.nan THEN NaNV ELSE NumV(x.n)

----------------------------------------------------------------------------
(* FormData: name -> sequence of entries (StrV(s) for a string, FileV for a file) *)

Names == {"low", "high"}

FdHas(fd, name) == name \in DOMAIN fd /\ fd[name] # <<>>
FdGetAll(fd, name) == IF name \in DOMAIN fd THEN fd[name] ELSE <<>>
\* fd.get(name): the first entry or null
FdGet(fd, name) == IF FdHas(fd, name) THEN fd[name][1] ELSE NullV

\* the derivation functions of the demo form and of the range example
Derive(f, fd) ==
    CASE f = "getLow" -> FdGet(fd, "low")
      [] f = "lowNum" ->
            IF Truthy(FdGet(fd, "low"))
            THEN (IF FdGet(fd, "low").t = "file" THEN NaNV ELSE NumberV(FdGet(fd, "low").s))
            ELSE UndefV
      [] f = "highNum" ->
            IF Truthy(FdGet(fd, "high"))
            THEN (IF FdGet(fd, "high").t = "file" THEN NaNV ELSE NumberV(FdGet(fd, "high").s))
            ELSE UndefV

calculateValidationAttr(attrValue, fd) ==
    IF attrValue.t = "function" THEN Derive(attrValue.s[1], fd) ELSE attrValue

----------------------------------------------------------------------------
(* The registry of built-in validations *)

Attrs == {"type", "required", "minLength", "maxLength", "min", "max", "pattern"}

DomKeys == {"typeMismatch", "valueMissing", "tooShort", "tooLong",
            "rangeUnderflow", "rangeOverflow", "patternMismatch"}

domKey(attr) ==
    CASE attr = "type" -> "typeMismatch"
      [] attr = "required" -> "valueMissing"
      [] attr = "minLength" -> "tooShort"
      [] attr = "maxLength" -> "tooLong"
      [] attr = "min" -> "rangeUnderflow"
      [] attr = "max" -> "rangeOverflow"
      [] attr = "pattern" -> "patternMismatch"

\* new RegExp(p).test(s) for the patterns of the README and the demo form
PatLetters == <<"^", "[", "a", "-", "z", "A", "-", "Z", "]", "+", "$">>
PatOneLetter == <<"^", "[", "a", "-", "z", "A", "-", "Z", "]", "{", "1", "}", "$">>

RegExpTest(p, s) ==
    CASE p = PatLetters -> s # <<>> /\ \A i \in 1..Len(s) : s[i] \in LetterChars
      [] p = PatOneLetter -> Len(s) = 1 /\ s[1] \in LetterChars

\* the registry without the empty-value skip of the range checks
builtInValidateNoEmptySkip(attr, value, attrValue) ==
    CASE attr = "type" -> TRUE
      [] attr = "required" -> Len(value) > 0
      [] attr = "minLength" ->
            Len(value) = 0 \/ NumGe(Num(Len(value)), StringToNumber(attrValue))
      [] attr = "maxLength" ->
            Len(value) = 0 \/ NumLe(Num(Len(value)), StringToNumber(attrValue))
      [] attr = "min" -> NumGe(StringToNumber(value), StringToNumber(attrValue))
      [] attr = "max" -> NumLe(StringToNumber(value), StringToNumber(attrValue))
      [] attr = "pattern" -> Len(value) = 0 \/ RegExpTest(attrValue, value)

\* the registry with `required` comparing the length with >= 0
builtInValidateRequiredGe(attr, value, attrValue) ==
    CASE attr = "type" -> TRUE
      [] attr = "required" -> Len(value) >= 0
      [] attr = "minLength" ->
            Len(value) = 0 \/ NumGe(Num(Len(value)), StringToNumber(attrValue))
      [] attr = "maxLength" ->
            Len(value) = 0 \/ NumLe(Num(Len(value)), StringToNumber(attrValue))
      [] attr = "min" ->
            Len(value) = 0 \/ NumGe(StringToNumber(value), StringToNumber(attrValue))
      [] attr = "max" ->
            Len(value) = 0 \/ NumLe(StringToNumber(value), StringToNumber(attrValue))
      [] attr = "pattern" -> Len(value) = 0 \/ RegExpTest(attrValue, value)

\* builtInValidations[attr].validate(value, attrValue): TRUE means "not invalid"
builtInValidate(attr, value, attrValue) ==
    CASE attr = "type" -> TRUE
      [] attr = "required" -> Len(value) > 0
      [] attr = "minLength" ->
            Len(value) = 0 \/ NumGe(Num(Len(value)), StringToNumber(attrValue))
      [] attr = "maxLength" ->
            Len(value) = 0 \/ NumLe(Num(Len(value)), StringToNumber(attrValue))
      [] attr = "min" ->
            Len(value) = 0 \/ NumGe(StringToNumber(value), StringToNumber(attrValue))
      [] attr = "max" ->
            Len(value) = 0 \/ NumLe(StringToNumber(value), StringToNumber(attrValue))
      [] attr = "pattern" -> Len(value) = 0 \/ RegExpTest(attrValue, value)

BaseKeys == {"badInput", "customError", "rangeOverflow", "rangeUnderflow",
             "patternMismatch", "stepMismatch", "tooLong", "tooShort",
             "typeMismatch", "valueMissing", "valid"}

getBaseValidityState == [k \in BaseKeys |-> k = "valid"]

----------------------------------------------------------------------------
(* Custom validations: author-supplied predicates (value, formData) -> boolean *)

\* what `await validate(value, formData)` yields: "true", "false" or "throw"
CustomOutcome(fn, value, fd) ==
    CASE fn = "mustBeBrophy" ->
            IF ToLowerCase(value) = <<"b", "r", "o", "p", "h", "y">> THEN "true" ELSE "false"
      [] fn = "mustBeMatt" ->
            IF ToLowerCase(value) = <<"m", "a", "t", "t">> THEN "true" ELSE "false"
      [] fn = "throws" -> "throw"

----------------------------------------------------------------------------
(* validateInput *)

\* inputEl: undefined (data-only), one control, or the member controls of a
\* checkbox / radio group; a control is represented by its native validity
NoEl == [kind |-> "none", els |-> <<>>]
OneEl(v) == [kind |-> "el", els |-> <<v>>]
ListEl(vs) == [kind |-> "list", els |-> vs]

NativeValidity(flags) == [k \in DomKeys |-> k \in flags]

\* an isElInvalid that asks the registry whatever the control reports
isElInvalidRegistry(hasEl, elValidity, attr, value, attrValue) ==
    ~builtInValidate(attr, value, ToStr(attrValue))

\* isElInvalid(el): the native flag when the control has a validity object,
\* else the registry check
isElInvalid(hasEl, elValidity, attr, value, attrValue) ==
    IF hasEl THEN elValidity[domKey(attr)]
    ELSE ~builtInValidate(attr, value, ToStr(attrValue))

\* a loop body that flags a group as soon as one member reports the flag
AttrStepSome(validity, entry, value, inputEl, fd) ==
    LET rawAttrValue == IF Truthy(entry.v) THEN entry.v ELSE NullV
        attrValue == calculateValidationAttr(rawAttrValue, fd)
    IN  IF IsNullish(attrValue) THEN validity
        ELSE LET isInvalid ==
                    IF inputEl.kind = "list"
                    THEN \E i \in 1..Len(inputEl.els) :
                            isElInvalid(TRUE, inputEl.els[i], entry.attr, value, attrValue)
                    ELSE IF inputEl.kind = "el"
                    THEN isElInvalid(TRUE, inputEl.els[1], entry.attr, value, attrValue)
                    ELSE isElInvalid(FALSE, <<>>, entry.attr, value, attrValue)
             IN  [validity EXCEPT ![domKey(entry.attr)] = isInvalid,
                                  !["valid"] = validity["valid"] /\ ~isInvalid]

\* the body of the loop over Object.keys(validationAttrs)
AttrStep(validity, entry, value, inputEl, fd) ==
    LET rawAttrValue == IF Truthy(entry.v) THEN entry.v ELSE NullV
        attrValue == calculateValidationAttr(rawAttrValue, fd)
    IN  IF IsNullish(attrValue) THEN validity
        ELSE LET isInvalid ==
                    IF inputEl.kind = "list"
                    THEN \A i \in 1..Len(inputEl.els) :
                            isElInvalid(TRUE, inputEl.els[i], entry.attr, value, attrValue)
                    ELSE IF inputEl.kind = "el"
                    THEN isElInvalid(TRUE, inputEl.els[1], entry.attr, value, attrValue)
                    ELSE isElInvalid(FALSE, <<>>, entry.attr, value, attrValue)
             IN  [validity EXCEPT ![domKey(entry.attr)] = isInvalid,
                                  !["valid"] = validity["valid"] /\ ~isInvalid]

RECURSIVE AttrLoop(_, _, _, _, _)
AttrLoop(validity, validationAttrs, value, inputEl, fd) ==
    IF validationAttrs = <<>> THEN validity
    ELSE AttrLoop(AttrStep(validity, Head(validationAttrs), value, inputEl, fd),
                  Tail(validationAttrs), value, inputEl, fd)

\* a custom flag that is recorded without being folded into valid
CustomStepKeepValid(validity, name, isInvalid) ==
    [k \in DOMAIN validity \cup {name} |-> IF k = name THEN isInvalid ELSE validity[k]]

\* validity[name] = isInvalid; validity.valid = validity.valid && !isInvalid
CustomStep(validity, name, isInvalid) ==
    [k \in DOMAIN validity \cup {name} |->
        IF k = "valid" THEN validity["valid"] /\ ~isInvalid
        ELSE IF k = name THEN isInvalid
        ELSE validity[k]]

\* the loop over Object.keys(customValidations): each predicate is awaited
\* before the next one is called; a throw / rejection leaves the loop
RECURSIVE CustomLoop(_, _, _, _)
CustomLoop(r, customValidations, value, fd) ==
    IF customValidations = <<>> \/ r.threw THEN r
    ELSE LET c == Head(customValidations)
             out == CustomOutcome(c.fn, value, fd)
         IN  IF out = "throw"
             THEN [r EXCEPT !.threw = TRUE, !.called = Append(r.called, c.name)]
             ELSE CustomLoop([threw |-> FALSE,
                              validity |-> CustomStep(r.validity, c.name, out = "false"),
                              called |-> Append(r.called, c.name)],
                             Tail(customValidations), value, fd)

\* a validateInput that runs no custom validation once a built-in constraint
\* has failed
validateInputShortCircuit(validationAttrs, customValidations, value, inputEl, fd) ==
    LET builtIn == AttrLoop(getBaseValidityState, validationAttrs, value, inputEl, fd)
    IN  IF ~builtIn["valid"]
        THEN [threw |-> FALSE, validity |-> builtIn, called |-> <<>>]
        ELSE CustomLoop([threw |-> FALSE, validity |-> builtIn, called |-> <<>>],
                        customValidations, value, fd)

\* what the promise returned by validateInput settles to: threw = rejected,
\* otherwise fulfilled with validity; called lists the custom validations invoked
validateInput(validationAttrs, customValidations, value, inputEl, fd) ==
    CustomLoop([threw |-> FALSE,
                validity |-> AttrLoop(getBaseValidityState, validationAttrs, value, inputEl, fd),
                called |-> <<>>],
               customValidations, value, fd)

----------------------------------------------------------------------------
(* Form definitions that are enumerated *)

AbsentV == [t |-> "absent", n |-> 0, s |-> <<>>]

AttrOrder == <<"type", "required", "minLength", "maxLength", "min", "max", "pattern">>

TypeNumber == <<"n", "u", "m", "b", "e", "r">>

\* the values each attribute is declared with (AbsentV: not declared)
AttrChoices(attr) ==
    CASE attr = "type" -> {AbsentV, StrV(TypeNumber)}
      [] attr = "required" -> {AbsentV, BoolV(TRUE), BoolV(FALSE)}
      [] attr = "minLength" -> {AbsentV, NumV(5)}
      [] attr = "maxLength" -> {AbsentV, NumV(2)}
      [] attr = "min" -> {AbsentV, NumV(0), NumV(5), FnV("lowNum"), FnV("getLow")}
      [] attr = "max" -> {AbsentV, NumV(5)}
      [] attr = "pattern" -> {AbsentV, StrV(PatLetters)}

\* validationAttrs as the list of its entries in key order
AttrsOf(choice) ==
    SelectSeq([i \in 1..Len(AttrOrder) |-> [attr |-> AttrOrder[i], v |-> choice[i]]],
              LAMBDA e : e.v.t # "absent")

AllValidationAttrs ==
    {AttrsOf(<<t, r, mnl, mxl, mn, mx, p>>) :
        t \in AttrChoices("type"), r \in AttrChoices("required"),
        mnl \in AttrChoices("minLength"), mxl \in AttrChoices("maxLength"),
        mn \in AttrChoices("min"), mx \in AttrChoices("max"),
        p \in AttrChoices("pattern")}

\* customValidations as the list of its entries in key order
CustomChoices ==
    { <<>>,
      <<[name |-> "mustBeBrophy", fn |-> "mustBeBrophy"]>>,
      <<[name |-> "mustBeMatt", fn |-> "mustBeMatt"], [name |-> "mustBeBrophy", fn |-> "mustBeBrophy"]>>,
      <<[name |-> "throws", fn |-> "throws"], [name |-> "mustBeBrophy", fn |-> "mustBeBrophy"]>>,
      <<[name |-> "tooShort", fn |-> "mustBeBrophy"]>> }

\* the submission snapshots a derivation function is evaluated on
Snapshots ==
    { [n \in {} |-> <<>>],
      [n \in {"low"} |-> <<StrV(<<>>)>>],
      [n \in {"low"} |-> <<StrV(<<"5">>)>>],
      [n \in {"low"} |-> <<StrV(<<"a">>)>>] }

\* controls handed to validateInput on the client
NativeFlagSets == {{}, {"valueMissing"}, {"tooShort", "rangeUnderflow"}, {"rangeUnderflow"}}

Controls ==
    {OneEl(NativeValidity(f)) : f \in NativeFlagSets}
    \cup {ListEl(<<NativeValidity(f), NativeValidity(g)>>) : f, g \in {{}, {"valueMissing"}}}

\* declarations validated against a control: the native flags decide, so
\* only which attributes are declared matters
ControlValidationAttrs ==
    {va \in AllValidationAttrs :
        \A i \in 1..Len(va) : va[i].attr \in {"required", "minLength", "min"}
                              /\ va[i].v \in {BoolV(TRUE), NumV(5), FnV("lowNum")}}

----------------------------------------------------------------------------
(* validateInput called once on enumerated arguments *)

NoResult == [threw |-> FALSE, validity |-> [k \in {} |-> FALSE], called |-> <<"-">>]
NoArgs == [validationAttrs |-> <<>>, customValidations |-> <<>>, value |-> <<>>,
           inputEl |-> NoEl, formData |-> [n \in {} |-> <<>>]]

HasDerived(validationAttrs) ==
    \E i \in 1..Len(validationAttrs) : validationAttrs[i].v.t = "function"

\* the snapshot only matters to declarations with a derivation function
ValidateInputArgs ==
    {a \in [validationAttrs : AllValidationAttrs, customValidations : CustomChoices,
            value : Values, inputEl : {NoEl}, formData : Snapshots] :
        HasDerived(a.validationAttrs) \/ a.formData = [n \in {} |-> <<>>]}
    \cup
    [validationAttrs : ControlValidationAttrs, customValidations : CustomChoices,
     value : Values, inputEl : Controls, formData : Snapshots]

\* where a field's callback stands: i entries consumed; running, done or threw
Running(i) == [i |-> i, st |-> "running"]

\* no call of validateServerFormData is followed on its own
CallIdle ==
    /\ formData = [n \in {} |-> <<>>]
    /\ formDefinition = [n \in {} |-> <<>>]
    /\ serverCustomValidations = [n \in {} |-> <<>>]
    /\ pc = [n \in {} |-> Running(0)]
    /\ inputs = [n \in {} |-> 0]
    /\ submittedValues = [n \in {} |-> 0]
    /\ valid = TRUE
    /\ returned = "idle"

ServerIdle ==
    /\ CallIdle
    /\ calls = <<>>

SessionIdle ==
    /\ sessionForm = [inputs |-> [n \in {} |-> <<>>], controls |-> {}, formRef |-> FALSE]
    /\ serverFormInfo = [id |-> 0]
    /\ control = [n \in {} |-> <<>>]
    /\ elValue = [n \in {} |-> <<>>]
    /\ uncommitted = {}
    /\ mounted = FALSE
    /\ hook = [st |-> "idle"]

\* no call of getCurrentErrorMessages
MessagesIdle ==
    /\ msgArgs = [called |-> FALSE]
    /\ msgRes = [called |-> FALSE]

\* no validateInput call is followed step by step
LoopIdle == loop = [st |-> "idle"]

ValidateIdle ==
    /\ viArgs = NoArgs
    /\ viRes = NoResult
    /\ MessagesIdle
    /\ LoopIdle

ValidateInit ==
    /\ viArgs \in ValidateInputArgs
    /\ viRes = NoResult
    /\ MessagesIdle
    /\ LoopIdle
    /\ ServerIdle
    /\ SessionIdle

CallValidateInput ==
    /\ viRes = NoResult
    /\ viRes' = validateInput(viArgs.validationAttrs, viArgs.customValidations,
                              viArgs.value, viArgs.inputEl, viArgs.formData)
    /\ UNCHANGED <<viArgs, msgArgs, msgRes, loop, serverVars, sessionVars>>

ValidateNext == CallValidateInput

SpecValidate == ValidateInit /\ [][ValidateNext]_vars

----------------------------------------------------------------------------
(* validateServerFormData *)

Unset == [kind |-> "unset", items |-> <<>>]
Scalar(x) == [kind |-> "scalar", items |-> <<x>>]
NullEntry == [kind |-> "null", items |-> <<>>]

\* an addition that turns a scalar into a list of the new value alone
addValueDroppingFirst(existing, value) ==
    IF existing.kind # "unset"
    THEN (IF existing.kind = "list"
          THEN [kind |-> "list", items |-> Append(existing.items, value)]
          ELSE [kind |-> "list", items |-> <<value>>])
    ELSE Scalar(value)

\* addValueFromSingleOrMultipleInput(name, value, values), as the new values[name]
addValueFromSingleOrMultipleInput(existing, value) ==
    IF existing.kind # "unset"
    THEN (IF existing.kind = "list"
          THEN [kind |-> "list", items |-> Append(existing.items, value)]
          ELSE [kind |-> "list", items |-> existing.items \o <<value>>])
    ELSE Scalar(value)

\* { ...a, ...b } on custom validations kept as key-ordered lists
RECURSIVE SpreadOver(_, _)
SpreadOver(a, b) ==
    IF b = <<>> THEN a
    ELSE LET e == Head(b)
             hit == {i \in 1..Len(a) : a[i].name = e.name}
         IN  SpreadOver(IF hit = {} THEN Append(a, e)
                        ELSE [i \in 1..Len(a) |-> IF i \in hit THEN e ELSE a[i]],
                        Tail(b))

ServerCustomFor(name) ==
    IF name \in DOMAIN serverCustomValidations THEN serverCustomValidations[name] ELSE <<>>

\* a Field Info built with the initial flags of a live session
InputInfoUntouched(value, validity) ==
    [value |-> value, touched |-> FALSE, dirty |-> FALSE, state |-> "idle", validity |-> validity]

InputInfo(value, validity) ==
    [value |-> value, touched |-> TRUE, dirty |-> TRUE, state |-> "done", validity |-> validity]

\* the declarations of the forms that are submitted
LowDefs ==
    { [validationAttrs |-> <<[attr |-> "required", v |-> BoolV(TRUE)]>>,
       customValidations |-> <<>>],
      [validationAttrs |-> <<[attr |-> "required", v |-> BoolV(TRUE)],
                             [attr |-> "minLength", v |-> NumV(5)]>>,
       customValidations |-> <<[name |-> "mustBeBrophy", fn |-> "mustBeBrophy"]>>],
      [validationAttrs |-> <<[attr |-> "minLength", v |-> NumV(5)]>>,
       customValidations |-> <<[name |-> "throws", fn |-> "throws"]>>] }

HighDefs ==
    { [validationAttrs |-> <<[attr |-> "type", v |-> StrV(TypeNumber)],
                             [attr |-> "min", v |-> FnV("lowNum")]>>,
       customValidations |-> <<>>],
      [validationAttrs |-> <<[attr |-> "required", v |-> BoolV(TRUE)]>>,
       customValidations |-> <<>>] }

\* the same declarations, declared multi-valued by a `multiple: true` member
MultipleDefs ==
    { [validationAttrs |-> d.validationAttrs, customValidations |-> d.customValidations,
       multiple |-> TRUE] : d \in LowDefs }

\* is the field declared multi-valued
IsMultiple(def) == "multiple" \in DOMAIN def /\ def.multiple

ServerForms ==
    {[n \in {"low"} |-> d] : d \in LowDefs \cup MultipleDefs}
    \cup {[n \in Names |-> IF n = "low" THEN d ELSE e] : d \in LowDefs, e \in HighDefs}

ServerEntries == {StrV(<<>>), StrV(<<"5">>), StrV(Brophy), FileV}

RECURSIVE EntriesUpTo(_)
EntriesUpTo(n) ==
    IF n = 0 THEN {<<>>}
    ELSE LET shorter == EntriesUpTo(n - 1)
         IN  shorter \cup {Append(s, e) : s \in {t \in shorter : Len(t) = n - 1},
                                          e \in ServerEntries}

\* "low" carries up to MaxEntries entries, "high" at most one
Submissions ==
    {[n \in Names |-> IF n = "low" THEN l ELSE h] :
        l \in EntriesUpTo(MaxEntries), h \in EntriesUpTo(1)}

ServerCustomChoices ==
    { [n \in {} |-> <<>>],
      [n \in {"low"} |-> <<[name |-> "mustBeMatt", fn |-> "mustBeMatt"]>>] }


Declared == DOMAIN formDefinition

ServerInit ==
    /\ ValidateIdle
    /\ SessionIdle
    /\ formDefinition \in ServerForms
    /\ formData \in Submissions
    /\ serverCustomValidations \in ServerCustomChoices
    /\ pc = [n \in DOMAIN formDefinition |-> Running(0)]
    /\ inputs = [n \in DOMAIN formDefinition |-> Unset]
    /\ submittedValues = [n \in DOMAIN formDefinition |-> Unset]
    /\ valid = TRUE
    /\ returned = "pending"
    /\ calls = <<>>

\* a turn of the loop that validates and records every entry, a file (as
\* the empty string) included
ServerSubmittedStepAnyType(name) ==
    /\ returned # "idle"
    /\ name \in Declared
    /\ FdHas(formData, name)
    /\ pc[name].st = "running"
    /\ pc[name].i < Len(FdGetAll(formData, name))
    /\ LET value == FdGetAll(formData, name)[pc[name].i + 1]
           r == validateInput(formDefinition[name].validationAttrs,
                              SpreadOver(formDefinition[name].customValidations,
                                         ServerCustomFor(name)),
                              value.s, NoEl, formData)
       IN  IF r.threw
           THEN /\ pc' = [pc EXCEPT ![name].st = "threw"]
                /\ returned' = IF returned = "pending" THEN "rejected" ELSE returned
                /\ UNCHANGED <<inputs, submittedValues, valid>>
           ELSE /\ inputs' = [inputs EXCEPT ![name] =
                       addValueFromSingleOrMultipleInput(@, InputInfo(value, r.validity))]
                /\ submittedValues' = [submittedValues EXCEPT ![name] =
                       addValueFromSingleOrMultipleInput(@, value)]
                /\ valid' = (valid /\ r.validity["valid"] = TRUE)
                /\ pc' = [pc EXCEPT ![name].i = @ + 1]
                /\ UNCHANGED returned
    /\ UNCHANGED <<validateVars, sessionVars, calls, formData, formDefinition, serverCustomValidations>>

\* one turn of the loop `for (let value of values)` of a submitted field: a
\* string entry is validated and recorded when the awaited validateInput
\* settles, any other entry is skipped with a warning
ServerSubmittedStep(name) ==
    /\ returned # "idle"
    /\ name \in Declared
    /\ FdHas(formData, name)
    /\ pc[name].st = "running"
    /\ pc[name].i < Len(FdGetAll(formData, name))
    /\ LET value == FdGetAll(formData, name)[pc[name].i + 1]
           r == validateInput(formDefinition[name].validationAttrs,
                              SpreadOver(formDefinition[name].customValidations,
                                         ServerCustomFor(name)),
                              value.s, NoEl, formData)
       IN  IF value.t = "string"
           THEN IF r.threw
                THEN /\ pc' = [pc EXCEPT ![name].st = "threw"]
                     /\ returned' = IF returned = "pending" THEN "rejected" ELSE returned
                     /\ UNCHANGED <<inputs, submittedValues, valid>>
                ELSE /\ inputs' = [inputs EXCEPT ![name] =
                            addValueFromSingleOrMultipleInput(@, InputInfo(value, r.validity))]
                     /\ submittedValues' = [submittedValues EXCEPT ![name] =
                            addValueFromSingleOrMultipleInput(@, value)]
                     /\ valid' = (valid /\ r.validity["valid"] = TRUE)
                     /\ pc' = [pc EXCEPT ![name].i = @ + 1]
                     /\ UNCHANGED returned
           ELSE /\ pc' = [pc EXCEPT ![name].i = @ + 1]
                /\ UNCHANGED <<inputs, submittedValues, valid, returned>>
    /\ UNCHANGED <<validateVars, sessionVars, calls, formData, formDefinition, serverCustomValidations>>

\* an absent field that is passed over without an entry
ServerAbsentStepSkip(name) ==
    /\ returned # "idle"
    /\ name \in Declared
    /\ ~FdHas(formData, name)
    /\ pc[name] = Running(0)
    /\ pc' = [pc EXCEPT ![name].st = "done"]
    /\ UNCHANGED <<validateVars, sessionVars, calls, formData, formDefinition, serverCustomValidations,
                   inputs, submittedValues, valid, returned>>

\* the else branch: the field name does not occur in the submission
ServerAbsentStep(name) ==
    /\ returned # "idle"
    /\ name \in Declared
    /\ ~FdHas(formData, name)
    /\ pc[name] = Running(0)
    /\ LET r == validateInput(formDefinition[name].validationAttrs,
                              formDefinition[name].customValidations,
                              <<>>, NoEl, formData)
       IN  IF r.threw
           THEN /\ pc' = [pc EXCEPT ![name].st = "threw"]
                /\ returned' = IF returned = "pending" THEN "rejected" ELSE returned
                /\ UNCHANGED <<inputs, submittedValues>>
           ELSE /\ inputs' = [inputs EXCEPT ![name] = Scalar(InputInfo(NullV, r.validity))]
                /\ submittedValues' = [submittedValues EXCEPT ![name] = NullEntry]
                /\ pc' = [pc EXCEPT ![name].st = "done"]
                /\ UNCHANGED returned
    /\ UNCHANGED <<validateVars, sessionVars, calls, formData, formDefinition, serverCustomValidations, valid>>

\* a submitted field's callback returns after its last entry
ServerFieldDone(name) ==
    /\ returned # "idle"
    /\ name \in Declared
    /\ FdHas(formData, name)
    /\ pc[name] = Running(Len(FdGetAll(formData, name)))
    /\ pc' = [pc EXCEPT ![name].st = "done"]
    /\ UNCHANGED <<validateVars, sessionVars, calls, formData, formDefinition, serverCustomValidations,
                   inputs, submittedValues, valid, returned>>

\* Promise.all is fulfilled: return { submittedValues, inputs, valid }
ServerReturn ==
    /\ returned = "pending"
    /\ \A n \in Declared : pc[n].st = "done"
    /\ returned' = "resolved"
    /\ UNCHANGED <<validateVars, sessionVars, calls, formData, formDefinition, serverCustomValidations,
                   pc, inputs, submittedValues, valid>>

ServerNext ==
    \/ \E name \in Names : ServerSubmittedStep(name)
    \/ \E name \in Names : ServerAbsentStep(name)
    \/ \E name \in Names : ServerFieldDone(name)
    \/ ServerReturn

SpecServer == ServerInit /\ [][ServerNext]_vars

----------------------------------------------------------------------------
(* The live validation session: useValidatedControl, one instance per field *)

\* the form of app/routes: lastName with an asynchronous custom validation
LastNameDef ==
    [validationAttrs |-> <<[attr |-> "required", v |-> BoolV(TRUE)],
                           [attr |-> "minLength", v |-> NumV(5)]>>,
     customValidations |-> <<[name |-> "mustBeBrophy", fn |-> "mustBeBrophy"]>>]

\* the field `high` of the demo form: its min is derived from the control `low`
HighDef ==
    [validationAttrs |-> <<[attr |-> "type", v |-> StrV(TypeNumber)],
                           [attr |-> "min", v |-> FnV("lowNum")]>>,
     customValidations |-> <<>>]

\* the rendered forms: the declared fields, the names of all controls of the
\* <form> (a control that is not declared has no session), and whether the
\* FormProvider is handed a ref to the <form> element
SessionForms ==
    { [inputs |-> [n \in {"lastName"} |-> LastNameDef], controls |-> {"lastName"},
       formRef |-> TRUE],
      [inputs |-> [n \in {"high"} |-> HighDef], controls |-> {"low", "high"},
       formRef |-> TRUE],
      [inputs |-> [n \in {"high"} |-> HighDef], controls |-> {"low", "high"},
       formRef |-> FALSE] }

\* what the user types into a control
FieldValues(name) ==
    IF name = "lastName" THEN {<<>>, Bro, Brophy}
    ELSE IF name = "low" THEN {<<>>, <<"5">>}
    ELSE {<<"5">>, <<"-", "5">>}

Fields == DOMAIN sessionForm.inputs

\* validity === undefined
NoValidity == [k \in {} |-> FALSE]

\* new FormData(form): every text control contributes its current value
FormSnapshot == [n \in DOMAIN elValue |-> <<StrV(elValue[n])>>]

\* does any declared attribute need re-evaluation on form changes
hasDynamicAttributes(formInputs) ==
    \E n \in DOMAIN formInputs :
        \E i \in 1..Len(formInputs[n].validationAttrs) :
            formInputs[n].validationAttrs[i].v.t = "function"

\* calculateValidationAttrs: the attributes rendered onto the control
RECURSIVE calculateValidationAttrs(_, _)
calculateValidationAttrs(validationAttrs, fd) ==
    IF validationAttrs = <<>> THEN <<>>
    ELSE LET e == Head(validationAttrs)
             value == calculateValidationAttr(e.v, fd)
             rest == calculateValidationAttrs(Tail(validationAttrs), fd)
         IN  IF IsNullish(value) THEN rest ELSE <<[attr |-> e.attr, v |-> value]>> \o rest

\* el.validity: the browser's constraint validation of the control's value
\* against its rendered attributes, which builtInValidations mimics
BrowserValidity(value, renderedAttrs) ==
    [k \in DomKeys |->
        \E i \in 1..Len(renderedAttrs) :
            /\ domKey(renderedAttrs[i].attr) = k
            /\ renderedAttrs[i].v.t # "false"
            /\ ~builtInValidate(renderedAttrs[i].attr, value, ToStr(renderedAttrs[i].v))]

\* the keys of getCurrentErrorMessages(...): the flags other than valid that
\* are true ({} stands for undefined)
getCurrentErrorMessages(validity) ==
    {k \in DOMAIN validity : k # "valid" /\ validity[k]}

\* a Server Form Result for a submission with at most one value per field,
\* as validateServerFormData builds it; id tells objects apart
ServerFormInfoFor(id, formInputs, fd, serverCustom) ==
    [id |-> id,
     submittedValues |->
        [n \in DOMAIN formInputs |-> IF FdHas(fd, n) THEN Scalar(fd[n][1]) ELSE NullEntry],
     inputs |->
        [n \in DOMAIN formInputs |->
            IF FdHas(fd, n)
            THEN Scalar(InputInfo(fd[n][1],
                    validateInput(formInputs[n].validationAttrs,
                                  SpreadOver(formInputs[n].customValidations, serverCustom),
                                  fd[n][1].s, NoEl, fd).validity))
            ELSE Scalar(InputInfo(NullV,
                    validateInput(formInputs[n].validationAttrs,
                                  formInputs[n].customValidations,
                                  <<>>, NoEl, fd).validity))]]

NoServerFormInfo == [id |-> 0]

\* a rebuild that stores list items with set, so that only the last one stays
generateFormDataSetOnly(sv) ==
    [n \in DOMAIN sv |->
        IF sv[n].kind = "null" \/ sv[n].items = <<>> THEN <<>>
        ELSE <<sv[n].items[Len(sv[n].items)]>>]

\* generateFormDataFromServerFormInfo(submittedValues)
generateFormDataFromServerFormInfo(sv) ==
    [n \in DOMAIN sv |-> IF sv[n].kind = "null" THEN <<>> ELSE sv[n].items]

\* the FormData of the first render, when there is no ref to the form yet
FirstRenderFormData(sfi) ==
    IF sfi.id = 0 THEN [n \in {} |-> <<>>]
    ELSE generateFormDataFromServerFormInfo(sfi.submittedValues)

\* the submissions whose results are handed to the session
SeedSubmissions(form) ==
    IF "lastName" \in form.controls
    THEN {[n \in {"lastName"} |-> e] : e \in {<<>>, <<StrV(<<>>)>>, <<StrV(Brophy)>>}}
    ELSE {[n \in {"low", "high"} |-> IF n = "low" THEN l ELSE h] :
            l \in {<<StrV(<<>>)>>, <<StrV(<<"5">>)>>},
            h \in {<<StrV(<<"5">>)>>, <<StrV(<<"-", "5">>)>>}}

SeedServerCustom(form) ==
    IF "lastName" \in form.controls
    THEN {<<>>, <<[name |-> "mustBeMatt", fn |-> "mustBeMatt"]>>}
    ELSE {<<>>}

\* a seed: the result and the submission it was computed from
Seeds(id, form) ==
    {[sfi |-> ServerFormInfoFor(id, form.inputs, fd, sc), fd |-> fd] :
        fd \in SeedSubmissions(form), sc \in SeedServerCustom(form)}

\* serverValue / serverValidity as computed during render
serverValue(sfi, name) ==
    IF sfi.id = 0 THEN NullV
    ELSE IF sfi.submittedValues[name].kind = "null" THEN NullV
    ELSE sfi.submittedValues[name].items[1]

serverValidity(sfi, name) ==
    IF sfi.id = 0 THEN NoValidity ELSE sfi.inputs[name].items[1].validity

\* the React state and refs right after the first render
InitialControl(sfi, name) ==
    [value |-> IF Truthy(serverValue(sfi, name)) THEN serverValue(sfi, name).s ELSE <<>>,
     dirty |-> sfi.id # 0,
     touched |-> sfi.id # 0,
     validationState |-> IF sfi.id # 0 THEN "done" ELSE "idle",
     validity |-> serverValidity(sfi, name),
     currentErrorMessages |-> getCurrentErrorMessages(serverValidity(sfi, name)),
     prevServerFormInfo |-> sfi.id,
     controller |-> "null",
     inflight |-> <<>>]

\* an abort() that reaches no awaited validation
AbortNothing(c) == c

\* controller.current?.abort(): the controller of the youngest awaited
\* validation, unless it has settled already
AbortCurrent(c) ==
    IF c.controller = "pending"
    THEN [c EXCEPT !.inflight[Len(c.inflight)].aborted = TRUE]
    ELSE c

\* a start of a validation that leaves the validation state alone
StartValidationSilent(c, name, fd, renderedAttrs) ==
    [c EXCEPT !.controller = "pending",
              !.inflight = Append(@, [value |-> c.value,
                                      formData |-> fd,
                                      inputEl |-> OneEl(BrowserValidity(fd[name][1].s, renderedAttrs)),
                                      aborted |-> FALSE])]

\* go() from `new AbortController()` up to `await validateInput(...)`
StartValidation(c, name, fd, renderedAttrs) ==
    [c EXCEPT !.controller = "pending",
              !.validationState = "validating",
              !.inflight = Append(@, [value |-> c.value,
                                      formData |-> fd,
                                      inputEl |-> OneEl(BrowserValidity(fd[name][1].s, renderedAttrs)),
                                      aborted |-> FALSE])]

\* a go() that adopts a server result and validates on the client all the same
GoRevalidating(c, name, sfi, fd, renderedAttrs) ==
    IF c.prevServerFormInfo # sfi.id
    THEN StartValidation(
            [c EXCEPT !.prevServerFormInfo = sfi.id,
                      !.dirty = TRUE,
                      !.touched = TRUE,
                      !.validity = IF sfi.id # 0 THEN serverValidity(sfi, name) ELSE @],
            name, fd, renderedAttrs)
    ELSE StartValidation(AbortCurrent(c), name, fd, renderedAttrs)

\* a go() that takes the state back to 'idle' when the server result is
\* withdrawn
GoIdleOnWithdrawal(c, name, sfi, fd, renderedAttrs) ==
    IF c.prevServerFormInfo # sfi.id
    THEN [c EXCEPT !.prevServerFormInfo = sfi.id,
                   !.dirty = TRUE,
                   !.touched = TRUE,
                   !.validationState = IF sfi.id # 0 THEN "done" ELSE "idle",
                   !.validity = IF sfi.id # 0 THEN serverValidity(sfi, name) ELSE @]
    ELSE StartValidation(AbortCurrent(c), name, fd, renderedAttrs)

\* go() up to its first await: adopt a server result not seen before and
\* return, else abort what is awaited and start a validation
Go(c, name, sfi, fd, renderedAttrs) ==
    IF c.prevServerFormInfo # sfi.id
    THEN [c EXCEPT !.prevServerFormInfo = sfi.id,
                   !.dirty = TRUE,
                   !.touched = TRUE,
                   !.validationState = "done",
                   !.validity = IF sfi.id # 0 THEN serverValidity(sfi, name) ELSE @]
    ELSE StartValidation(AbortCurrent(c), name, fd, renderedAttrs)

\* the validation effect run on mount
MountEffect(c, name, sfi, fd, renderedAttrs) == Go(c, name, sfi, fd, renderedAttrs)

\* a re-run whose go() stops after aborting what is awaited
EffectAbortOnly(c, name, sfi, fd, renderedAttrs) ==
    IF c.prevServerFormInfo # sfi.id
    THEN Go(AbortCurrent(c), name, sfi, fd, renderedAttrs)
    ELSE [AbortCurrent(c) EXCEPT !.validationState = "validating"]

\* the validation effect re-run after a dependency changed: the cleanup of
\* the previous run, then go()
Effect(c, name, sfi, fd, renderedAttrs) ==
    Go(AbortCurrent(c), name, sfi, fd, renderedAttrs)

\* does running the validation effect need a free slot for a validation
NeedsSlot(c, sfi) == c.prevServerFormInfo = sfi.id
HasSlot(c, sfi) == NeedsSlot(c, sfi) => Len(c.inflight) < MaxInFlight

RemoveAt(seq, i) == SubSeq(seq, 1, i - 1) \o SubSeq(seq, i + 1, Len(seq))

\* a settling that stores the result of an aborted validation too
SettleIgnoringAbort(c, def, i) ==
    LET e == c.inflight[i]
        r == validateInput(def.validationAttrs, def.customValidations,
                           e.value, e.inputEl, e.formData)
        rest == [c EXCEPT !.inflight = RemoveAt(@, i),
                          !.controller = IF i = Len(c.inflight) /\ @ = "pending"
                                         THEN "settled" ELSE @]
    IN  IF r.threw THEN rest
        ELSE [rest EXCEPT !.validationState = "done",
                          !.validity = r.validity,
                          !.currentErrorMessages =
                              IF r.validity["valid"] = FALSE
                              THEN getCurrentErrorMessages(r.validity) ELSE {}]

\* go() from the settling of the i-th awaited validateInput on: a rejection
\* is logged by the catch, an aborted validation returns, otherwise the
\* result and its error messages are stored
Settle(c, def, i) ==
    LET e == c.inflight[i]
        r == validateInput(def.validationAttrs, def.customValidations,
                           e.value, e.inputEl, e.formData)
        rest == [c EXCEPT !.inflight = RemoveAt(@, i),
                          !.controller = IF i = Len(c.inflight) /\ @ = "pending"
                                         THEN "settled" ELSE @]
    IN  IF r.threw \/ e.aborted THEN rest
        ELSE [rest EXCEPT !.validationState = "done",
                          !.validity = r.validity,
                          !.currentErrorMessages =
                              IF r.validity["valid"] = FALSE
                              THEN getCurrentErrorMessages(r.validity) ELSE {}]

RenderedAttrs(name, fd) ==
    calculateValidationAttrs(sessionForm.inputs[name].validationAttrs, fd)

NoForm == [inputs |-> [n \in {} |-> <<>>], controls |-> {}, formRef |-> FALSE]

\* the controls show the submitted values again (defaultValue)
SeededSession(form, seed) ==
    /\ sessionForm = form
    /\ serverFormInfo = seed.sfi
    /\ control = [n \in DOMAIN form.inputs |-> InitialControl(seed.sfi, n)]
    /\ elValue = [n \in form.controls |->
                    IF FdHas(seed.fd, n) THEN seed.fd[n][1].s ELSE <<>>]

UnseededSession(form) ==
    /\ sessionForm = form
    /\ serverFormInfo = NoServerFormInfo
    /\ control = [n \in DOMAIN form.inputs |-> InitialControl(NoServerFormInfo, n)]
    /\ elValue = [n \in form.controls |-> <<>>]

SessionInit ==
    /\ ValidateIdle
    /\ ServerIdle
    /\ \E form \in SessionForms :
          \/ UnseededSession(form)
          \/ \E seed \in Seeds(1, form) : SeededSession(form, seed)
    /\ uncommitted = {}
    /\ mounted = FALSE
    /\ hook = [st |-> "idle"]

\* the first commit: every control's validation effect runs; the attributes
\* on the controls are the ones of the first render
Mount ==
    /\ sessionForm # NoForm
    /\ ~mounted
    /\ mounted' = TRUE
    /\ control' = [n \in Fields |->
            MountEffect(control[n], n, serverFormInfo, FormSnapshot,
                        RenderedAttrs(n, FirstRenderFormData(serverFormInfo)))]
    /\ UNCHANGED <<sessionForm, serverFormInfo, elValue, uncommitted>>
    /\ UNCHANGED <<validateVars, serverVars, hook>>

\* an input event whose handler leaves dirty alone
InputEventNotDirty(name, v) ==
    /\ mounted
    /\ name \in Fields
    /\ v # control[name].value => HasSlot(control[name], serverFormInfo)
    /\ LET fd == [FormSnapshot EXCEPT ![name] = <<StrV(v)>>]
           c == [control[name] EXCEPT !.value = v]
       IN  control' = [control EXCEPT ![name] =
                IF v # control[name].value
                THEN Effect(c, name, serverFormInfo, fd, RenderedAttrs(name, fd))
                ELSE c]
    /\ elValue' = [elValue EXCEPT ![name] = v]
    /\ uncommitted' = uncommitted \cup {name}
    /\ UNCHANGED <<sessionForm, serverFormInfo, mounted>>
    /\ UNCHANGED <<validateVars, serverVars, hook>>

\* an input event on a declared field: the handler sets dirty and value; the
\* validation effect re-runs when the value differs from the one of the
\* previous render
InputEvent(name, v) ==
    /\ mounted
    /\ name \in Fields
    /\ v # control[name].value => HasSlot(control[name], serverFormInfo)
    /\ LET fd == [FormSnapshot EXCEPT ![name] = <<StrV(v)>>]
           c == [control[name] EXCEPT !.dirty = TRUE, !.value = v]
       IN  control' = [control EXCEPT ![name] =
                IF v # control[name].value
                THEN Effect(c, name, serverFormInfo, fd, RenderedAttrs(name, fd))
                ELSE c]
    /\ elValue' = [elValue EXCEPT ![name] = v]
    /\ uncommitted' = uncommitted \cup {name}
    /\ UNCHANGED <<sessionForm, serverFormInfo, mounted>>
    /\ UNCHANGED <<validateVars, serverVars, hook>>

\* the user edits a control of the form that is not a declared field
SiblingInput(name, v) ==
    /\ mounted
    /\ name \in DOMAIN elValue \ Fields
    /\ v # elValue[name]
    /\ elValue' = [elValue EXCEPT ![name] = v]
    /\ uncommitted' = uncommitted \cup {name}
    /\ UNCHANGED <<sessionForm, serverFormInfo, control, mounted>>
    /\ UNCHANGED <<validateVars, serverVars, hook>>

\* FormProvider's effect registers its change listener on the <form> when it
\* has the form element and the definition has dynamic attributes
ListensForChange(form) == form.formRef /\ hasDynamicAttributes(form.inputs)

\* a change event that re-validates the changed field only
ChangeEventLocal(name) ==
    /\ mounted
    /\ name \in uncommitted
    /\ ListensForChange(sessionForm) =>
            \A n \in Fields : HasSlot(control[n], serverFormInfo)
    /\ uncommitted' = uncommitted \ {name}
    /\ control' = IF ListensForChange(sessionForm)
                  THEN [n \in Fields |->
                            IF n = name
                            THEN Effect(control[n], n, serverFormInfo, FormSnapshot,
                                        RenderedAttrs(n, FormSnapshot))
                            ELSE control[n]]
                  ELSE control
    /\ UNCHANGED <<sessionForm, serverFormInfo, elValue, mounted>>
    /\ UNCHANGED <<validateVars, serverVars, hook>>

\* a change event reaches the <form>: FormProvider's listener, when there is
\* one, calls forceUpdate({}), every declared field re-renders and its
\* validation effect re-runs
ChangeEvent(name) ==
    /\ mounted
    /\ name \in uncommitted
    /\ ListensForChange(sessionForm) =>
            \A n \in Fields : HasSlot(control[n], serverFormInfo)
    /\ uncommitted' = uncommitted \ {name}
    /\ control' = IF ListensForChange(sessionForm)
                  THEN [n \in Fields |->
                            Effect(control[n], n, serverFormInfo, FormSnapshot,
                                   RenderedAttrs(n, FormSnapshot))]
                  ELSE control
    /\ UNCHANGED <<sessionForm, serverFormInfo, elValue, mounted>>
    /\ UNCHANGED <<validateVars, serverVars, hook>>

\* a blur that also re-runs the validation effect
BlurRevalidating(name) ==
    /\ mounted
    /\ name \in Fields
    /\ HasSlot(control[name], serverFormInfo)
    /\ control' = [control EXCEPT ![name] =
            Effect([@ EXCEPT !.touched = TRUE], name, serverFormInfo, FormSnapshot,
                   RenderedAttrs(name, FormSnapshot))]
    /\ UNCHANGED <<sessionForm, serverFormInfo, elValue, uncommitted, mounted>>
    /\ UNCHANGED <<validateVars, serverVars, hook>>

\* a blur event: the handler sets touched
Blur(name) ==
    /\ mounted
    /\ name \in Fields
    /\ control' = [control EXCEPT ![name].touched = TRUE]
    /\ UNCHANGED <<sessionForm, serverFormInfo, elValue, uncommitted, mounted>>
    /\ UNCHANGED <<validateVars, serverVars, hook>>

\* a settling that waits until no other field is validating
ValidationSettlesSerial(name, i) ==
    /\ mounted
    /\ name \in Fields
    /\ i \in 1..Len(control[name].inflight)
    /\ \A other \in Fields \ {name} : control[other].validationState # "validating"
    /\ control' = [control EXCEPT ![name] = Settle(@, sessionForm.inputs[name], i)]
    /\ UNCHANGED <<sessionForm, serverFormInfo, elValue, uncommitted, mounted>>
    /\ UNCHANGED <<validateVars, serverVars, hook>>

\* the awaited validateInput of a control settles
ValidationSettles(name, i) ==
    /\ mounted
    /\ name \in Fields
    /\ i \in 1..Len(control[name].inflight)
    /\ control' = [control EXCEPT ![name] = Settle(@, sessionForm.inputs[name], i)]
    /\ UNCHANGED <<sessionForm, serverFormInfo, elValue, uncommitted, mounted>>
    /\ UNCHANGED <<validateVars, serverVars, hook>>

\* a new serverFormInfo prop that makes every field start over from its
\* initial state
NewServerFormInfoStartingOver(sfi) ==
    /\ mounted
    /\ sfi.id # serverFormInfo.id
    /\ \A n \in Fields : HasSlot(control[n], sfi)
    /\ serverFormInfo' = sfi
    /\ control' = [n \in Fields |->
            [InitialControl(sfi, n) EXCEPT !.inflight = AbortCurrent(control[n]).inflight,
                                          !.controller = control[n].controller]]
    /\ UNCHANGED <<sessionForm, elValue, uncommitted, mounted>>
    /\ UNCHANGED <<validateVars, serverVars, hook>>

\* the serverFormInfo prop becomes a new object (the action data of a
\* submission) or undefined: every declared field re-renders and its
\* validation effect re-runs
NewServerFormInfo(sfi) ==
    /\ mounted
    /\ sfi.id # serverFormInfo.id
    /\ \A n \in Fields : HasSlot(control[n], sfi)
    /\ serverFormInfo' = sfi
    /\ control' = [n \in Fields |->
            Effect(control[n], n, sfi, FormSnapshot, RenderedAttrs(n, FormSnapshot))]
    /\ UNCHANGED <<sessionForm, elValue, uncommitted, mounted>>
    /\ UNCHANGED <<validateVars, serverVars, hook>>

FreshId == IF serverFormInfo.id = 1 THEN 2 ELSE 1

SessionNext ==
    \/ Mount
    \/ \E name \in Fields : \E v \in FieldValues(name) : InputEvent(name, v)
    \/ \E name \in DOMAIN elValue : \E v \in FieldValues(name) : SiblingInput(name, v)
    \/ \E name \in DOMAIN elValue : ChangeEvent(name)
    \/ \E name \in Fields : Blur(name)
    \/ \E name \in Fields : \E i \in 1..MaxInFlight : ValidationSettles(name, i)
    \/ \E seed \in Seeds(FreshId, sessionForm) : NewServerFormInfo(seed.sfi)
    \/ NewServerFormInfo(NoServerFormInfo)

Spec == SessionInit /\ [][SessionNext]_vars

----------------------------------------------------------------------------
(* Properties of validateInput (checked under SpecValidate) *)

Called == viRes # NoResult
Fulfilled == Called /\ ~viRes.threw
DataOnly == viArgs.inputEl = NoEl

\* the custom validations are named outside the built-in flag names
CustomNamesApart ==
    \A i \in 1..Len(viArgs.customValidations) : viArgs.customValidations[i].name \notin BaseKeys

Declares(attr, v) ==
    \E i \in 1..Len(viArgs.validationAttrs) :
        viArgs.validationAttrs[i].attr = attr /\ viArgs.validationAttrs[i].v = v

DeclaresAttr(attr) ==
    \E i \in 1..Len(viArgs.validationAttrs) : viArgs.validationAttrs[i].attr = attr

\* C5: in every validity returned by validateInput (data-only or against
\* controls, custom validations named apart from the built-in flags), valid
\* is true iff every other flag of the result is false
C5_ValidIffNoFlag ==
    (Fulfilled /\ CustomNamesApart) =>
        (viRes.validity["valid"]
            <=> \A k \in DOMAIN viRes.validity \ {"valid"} : ~viRes.validity[k])

C5_Witness ==
    /\ Fulfilled /\ CustomNamesApart
    /\ viArgs.inputEl.kind = "el"
    /\ viArgs.value = Bro
    /\ "mustBeBrophy" \in DOMAIN viRes.validity
    /\ viRes.validity["mustBeBrophy"]
    /\ ~viRes.validity["valueMissing"]
    /\ ~viRes.validity["tooShort"]
    /\ ~viRes.validity["valid"]

\* C8: data-only, validating the empty string leaves the flag of every
\* built-in constraint other than required false, whatever the constraint
\* value; with no required constraint and no custom validation the result is valid
C8_EmptySkip ==
    (Fulfilled /\ DataOnly /\ CustomNamesApart /\ viArgs.value = <<>>) =>
        /\ \A k \in DomKeys \ {"valueMissing"} : ~viRes.validity[k]
        /\ (~DeclaresAttr("required") /\ viArgs.customValidations = <<>>)
                => viRes.validity["valid"]

C8_Witness ==
    /\ Fulfilled /\ DataOnly /\ viArgs.value = <<>>
    /\ Declares("minLength", NumV(5)) /\ Declares("min", NumV(5))
    /\ Declares("max", NumV(5)) /\ Declares("pattern", StrV(PatLetters))
    /\ Declares("maxLength", NumV(2)) /\ Declares("type", StrV(TypeNumber))
    /\ ~DeclaresAttr("required")
    /\ viArgs.customValidations = <<>>
    /\ viRes.validity["valid"]

\* C9: data-only with required=true, valueMissing is true iff the value is the
\* empty string, whatever else is declared; {required, minLength: 5} with ""
\* gives valueMissing=true, tooShort=false, valid=false
C9_RequiredIndependent ==
    (Called /\ DataOnly /\ CustomNamesApart /\ Declares("required", BoolV(TRUE))) =>
        /\ viRes.validity["valueMissing"] <=> (viArgs.value = <<>>)
        /\ viArgs.value = <<>> => (~viRes.validity["tooShort"] /\ ~viRes.validity["valid"])

C9_Witness ==
    /\ Fulfilled /\ DataOnly
    /\ viArgs.validationAttrs = <<[attr |-> "required", v |-> BoolV(TRUE)],
                                  [attr |-> "minLength", v |-> NumV(5)]>>
    /\ viArgs.value = <<>>
    /\ viRes.validity["valueMissing"]
    /\ ~viRes.validity["tooShort"]
    /\ ~viRes.validity["valid"]

\* validationAttrs without its i-th entry
WithoutEntry(validationAttrs, i) ==
    SubSeq(validationAttrs, 1, i - 1) \o SubSeq(validationAttrs, i + 1, Len(validationAttrs))

\* the i-th declared constraint is a derivation function returning null / undefined
DerivedAbsent(i) ==
    /\ viArgs.validationAttrs[i].v.t = "function"
    /\ Derive(viArgs.validationAttrs[i].v.s[1], viArgs.formData).t \in {"null", "undefined"}

\* C10: a constraint whose derivation function returns undefined or null for
\* the snapshot is skipped: its flag stays false and the result is the one of
\* the same call without that constraint, whatever the value
C10_DerivedAbsentSkipped ==
    (Called /\ CustomNamesApart) =>
        \A i \in 1..Len(viArgs.validationAttrs) :
            DerivedAbsent(i) =>
                /\ ~viRes.validity[domKey(viArgs.validationAttrs[i].attr)]
                /\ viRes = validateInput(WithoutEntry(viArgs.validationAttrs, i),
                                         viArgs.customValidations, viArgs.value,
                                         viArgs.inputEl, viArgs.formData)

C10_Witness ==
    /\ Fulfilled
    /\ viArgs.validationAttrs = <<[attr |-> "min", v |-> FnV("lowNum")]>>
    /\ viArgs.inputEl = OneEl(NativeValidity({"rangeUnderflow"}))
    /\ viArgs.formData = [n \in {"low"} |-> <<StrV(<<>>)>>]
    /\ viArgs.value = <<"-", "5">>
    /\ ~viRes.validity["rangeUnderflow"]
    /\ viRes.validity["valid"]

----------------------------------------------------------------------------
(* Properties of validateServerFormData (checked under SpecServer) *)

Resolved == returned = "resolved"

RequiredTrue(name) ==
    \E i \in 1..Len(formDefinition[name].validationAttrs) :
        /\ formDefinition[name].validationAttrs[i].attr = "required"
        /\ formDefinition[name].validationAttrs[i].v = BoolV(TRUE)

\* every Field Info of the result has validity.valid
EveryFieldValid ==
    \A name \in Declared :
        \A i \in 1..Len(inputs[name].items) : inputs[name].items[i].validity["valid"]

\* C6: the valid flag of the result is the AND of validity.valid over every
\* declared field, also for a field that is absent from the submission
C6_AggregateIsAnd == Resolved => (valid <=> EveryFieldValid)

\* C7: a declared field whose name does not occur in the submission gets
\* submittedValues[name] = null and an inputs[name] entry whose validity is
\* the one of the empty string, so required=true gives valueMissing=true
C7_AbsentFieldValidated ==
    Resolved =>
        \A name \in Declared :
            ~FdHas(formData, name) =>
                /\ submittedValues[name] = NullEntry
                /\ inputs[name].kind = "scalar"
                /\ inputs[name].items[1].validity =
                        validateInput(formDefinition[name].validationAttrs,
                                      formDefinition[name].customValidations,
                                      <<>>, NoEl, formData).validity
                /\ RequiredTrue(name) => inputs[name].items[1].validity["valueMissing"]

C7_Witness ==
    /\ Resolved
    /\ "high" \in Declared
    /\ ~FdHas(formData, "high")
    /\ FdHas(formData, "low")
    /\ RequiredTrue("high")
    /\ submittedValues["high"] = NullEntry
    /\ inputs["high"].items[1].validity["valueMissing"]

\* ---------------------------------------------------------------------
\* Properties of the live session

\* the step is the settling of the i-th awaited validation of field n
SettlesAt(n, i) ==
    /\ i \in 1..Len(control[n].inflight)
    /\ control'[n].inflight = RemoveAt(control[n].inflight, i)

\* what validateInput resolves to for an awaited validation
ResultOf(n, e) ==
    validateInput(sessionForm.inputs[n].validationAttrs,
                  sessionForm.inputs[n].customValidations,
                  e.value, e.inputEl, e.formData)

\* C1: when the value of a field changes, every validation of that field
\* still in flight is aborted; the settling of an aborted validation writes
\* neither the validity nor the state; the only validation not aborted is
\* the youngest one, it is the one of the current value, and its settling
\* stores its result with state 'done'.
C1_AbortedResultDiscarded ==
    [][\A n \in DOMAIN control \cap DOMAIN control' :
        /\ control'[n].value # control[n].value =>
              /\ Len(control'[n].inflight) = Len(control[n].inflight) + 1
              /\ \A i \in 1..Len(control[n].inflight) :
                    control'[n].inflight[i].aborted
        /\ \A i \in 1..Len(control[n].inflight) :
              SettlesAt(n, i) =>
                 IF control[n].inflight[i].aborted
                 THEN /\ control'[n].validity = control[n].validity
                      /\ control'[n].validationState = control[n].validationState
                 ELSE ~ResultOf(n, control[n].inflight[i]).threw =>
                      /\ control'[n].validity =
                            ResultOf(n, control[n].inflight[i]).validity
                      /\ control'[n].validationState = "done"
        /\ \A i \in 1..Len(control'[n].inflight) :
              ~control'[n].inflight[i].aborted =>
                 /\ i = Len(control'[n].inflight)
                 /\ control'[n].inflight[i].value = control'[n].value
      ]_vars

\* C1 witness: the value went from Bro to Brophy while the validation of Bro
\* was in flight: that one is aborted, the one of Brophy is awaited
C1_Witness ==
    /\ mounted
    /\ "lastName" \in DOMAIN control
    /\ control["lastName"].value = Brophy
    /\ Len(control["lastName"].inflight) = 2
    /\ control["lastName"].inflight[1].value = Bro
    /\ control["lastName"].inflight[1].aborted
    /\ control["lastName"].inflight[2].value = Brophy
    /\ ~control["lastName"].inflight[2].aborted

\* the validation effect of field n runs in this step and sees a server
\* result that is not the one it saw before
SeesNewServerResult(n) ==
    /\ mounted
    /\ serverFormInfo'.id # 0
    /\ control[n].prevServerFormInfo # serverFormInfo'.id
    /\ control'[n].prevServerFormInfo = serverFormInfo'.id

\* C2: an effect run that sees a server result different from the one seen
\* before sets touched, dirty and state 'done', adopts the server's validity
\* of the field and starts no validation: nothing is added to the awaited
\* validations and the state is not 'validating'.
C2_ServerResultAdopted ==
    [][\A n \in DOMAIN control \cap DOMAIN control' :
        SeesNewServerResult(n) =>
            /\ control'[n].touched
            /\ control'[n].dirty
            /\ control'[n].validationState = "done"
            /\ control'[n].validity = serverValidity(serverFormInfo', n)
            /\ Len(control'[n].inflight) = Len(control[n].inflight)
            /\ \A i \in 1..Len(control'[n].inflight) : control'[n].inflight[i].aborted
      ]_vars

\* C2 witness: a second server result arrived while a validation was
\* awaited; it is adopted with its failing validity
C2_Witness ==
    /\ mounted
    /\ serverFormInfo.id = 2
    /\ \E n \in DOMAIN control :
          /\ control[n].prevServerFormInfo = 2
          /\ control[n].validationState = "done"
          /\ control[n].touched /\ control[n].dirty
          /\ control[n].validity = serverValidity(serverFormInfo, n)
          /\ control[n].validity["valid"] = FALSE
          /\ Len(control[n].inflight) = 1
          /\ control[n].inflight[1].aborted

\* the first commit of a session
MountStep == ~mounted /\ mounted'

\* C3: a session constructed with a server result starts touched, dirty,
\* 'done' with the server's validity, and the first commit starts no
\* validation and leaves that validity in place.
C3_SeededMountKeepsServerValidity ==
    [][(MountStep /\ serverFormInfo.id # 0) =>
        \A n \in DOMAIN control :
            /\ control[n].touched /\ control[n].dirty
            /\ control[n].validationState = "done"
            /\ control[n].validity = serverValidity(serverFormInfo, n)
            /\ control'[n].touched /\ control'[n].dirty
            /\ control'[n].validationState = "done"
            /\ control'[n].validity = serverValidity(serverFormInfo, n)
            /\ control'[n].inflight = <<>>
      ]_vars

\* a session constructed without a server result, before its first commit
StartsIdle(n) ==
    /\ ~control[n].touched
    /\ ~control[n].dirty
    /\ control[n].validationState = "idle"
    /\ control[n].validity = NoValidity
    /\ control[n].inflight = <<>>

\* C4 as stated: a session constructed without a server result starts
\* untouched, not dirty, 'idle' and without validity, and its first commit
\* starts no validation: the state stays 'idle'.
C4_MountStartsNoValidation ==
    [][(MountStep /\ serverFormInfo.id = 0) =>
        \A n \in DOMAIN control :
            /\ StartsIdle(n)
            /\ control'[n].validationState = "idle"
            /\ control'[n].inflight = <<>>
      ]_vars

\* C4 amended: a session constructed without a server result starts
\* untouched, not dirty, 'idle' and without validity; its first commit
\* starts the validation of the initial value, so the state is 'validating'
\* after mounting, while touched, dirty and the validity are as before;
\* touched becomes true only by a blur or a server result, dirty only by an
\* input event or a server result.
C4_MountStartsValidation ==
    [][/\ (MountStep /\ serverFormInfo.id = 0) =>
            \A n \in DOMAIN control :
                /\ StartsIdle(n)
                /\ control'[n].validationState = "validating"
                /\ Len(control'[n].inflight) = 1
                /\ control'[n].inflight[1].value = <<>>
                /\ ~control'[n].inflight[1].aborted
                /\ ~control'[n].touched
                /\ ~control'[n].dirty
                /\ control'[n].validity = NoValidity
       /\ \A n \in DOMAIN control \cap DOMAIN control' :
            /\ (~control[n].touched /\ control'[n].touched) =>
                  \/ serverFormInfo' # serverFormInfo
                  \/ control' = [control EXCEPT ![n].touched = TRUE]
            /\ (~control[n].dirty /\ control'[n].dirty) =>
                  \/ serverFormInfo' # serverFormInfo
                  \/ n \in uncommitted'
      ]_vars

\* C4 witness: mounted without a server result, nothing typed or blurred,
\* and the validation of the initial value is awaited
C4_Witness ==
    /\ mounted
    /\ serverFormInfo.id = 0
    /\ uncommitted = {}
    /\ \E n \in DOMAIN control :
          /\ control[n].validationState = "validating"
          /\ ~control[n].touched /\ ~control[n].dirty
          /\ control[n].validity = NoValidity
          /\ Len(control[n].inflight) = 1
          /\ control[n].inflight[1].value = <<>>

\* the value the i-th declared constraint resolves to for the snapshot
ResolvedValue(i) ==
    calculateValidationAttr(viArgs.validationAttrs[i].v, viArgs.formData)

\* C11: data-only, a declared constraint is skipped only when its resolved
\* value is null or undefined; a constraint whose literal or derived value
\* is present (for a boolean: true), the number 0 included, is evaluated by
\* the registry (custom validations named apart from the flags): min = 0 with a negative value sets rangeUnderflow and
\* clears valid.
C11_PresentConstraintEvaluated ==
    (Fulfilled /\ DataOnly /\ CustomNamesApart) =>
        \A i \in 1..Len(viArgs.validationAttrs) :
            ResolvedValue(i).t \notin {"null", "undefined", "false"} =>
                LET attr == viArgs.validationAttrs[i].attr
                    isInvalid == ~builtInValidate(attr, viArgs.value, ToStr(ResolvedValue(i)))
                IN  /\ viRes.validity[domKey(attr)] = isInvalid
                    /\ isInvalid => ~viRes.validity["valid"]

\* ---------------------------------------------------------------------
\* Further properties of validateServerFormData (checked under SpecServer)

\* the string values submitted under a name, in submission order
StringValues(name) ==
    SelectSeq(FdGetAll(formData, name), LAMBDA e : e.t = "string")

\* the Field Info validateServerFormData computes for a submitted string value
SubmittedInfo(name, value) ==
    InputInfo(value,
              validateInput(formDefinition[name].validationAttrs,
                            SpreadOver(formDefinition[name].customValidations,
                                       ServerCustomFor(name)),
                            value.s, NoEl, formData).validity)

\* C12: a field submitted with n >= 2 string values has submittedValues[name]
\* the list of those values in submission order and inputs[name] a list of
\* the same length whose i-th entry is the Field Info of the i-th value; in
\* every result inputs[name] is a list iff submittedValues[name] is one.
C12_MultipleValuesInOrder ==
    Resolved =>
        \A name \in Declared :
            /\ Len(StringValues(name)) >= 2 =>
                  /\ submittedValues[name] = [kind |-> "list", items |-> StringValues(name)]
                  /\ inputs[name].kind = "list"
                  /\ Len(inputs[name].items) = Len(StringValues(name))
                  /\ \A i \in 1..Len(StringValues(name)) :
                        inputs[name].items[i] = SubmittedInfo(name, StringValues(name)[i])
            /\ inputs[name].kind = "list" <=> submittedValues[name].kind = "list"

\* C12 witness: three different values, each with its own validity, in order
C12_Witness ==
    /\ Resolved
    /\ FdGetAll(formData, "low") = <<StrV(Brophy), StrV(<<>>), StrV(<<"5">>)>>
    /\ RequiredTrue("low")
    /\ submittedValues["low"].items = <<StrV(Brophy), StrV(<<>>), StrV(<<"5">>)>>
    /\ Len(inputs["low"].items) = 3
    /\ inputs["low"].items[1].validity["valid"]
    /\ inputs["low"].items[2].validity["valueMissing"]
    /\ ~inputs["low"].items[3].validity["valueMissing"]

\* C13: the shape of submittedValues[name] and inputs[name] of a submitted
\* field follows the declaration, not the number of values: a list for a
\* field declared multi-valued, also with exactly one value, and a scalar
\* for any other field.
C13_ShapeByDeclaration ==
    Resolved =>
        \A name \in Declared :
            Len(StringValues(name)) >= 1 =>
                LET shape == IF IsMultiple(formDefinition[name]) THEN "list" ELSE "scalar"
                IN  /\ submittedValues[name].kind = shape
                    /\ inputs[name].kind = shape

\* C14: every Field Info that validateServerFormData puts into inputs, be
\* it a scalar entry or a list member, of a submitted or of an absent
\* field, is touched, dirty, in state 'done' and carries a validity.
C14_ServerInfoDone ==
    \A name \in DOMAIN inputs :
        \A i \in 1..Len(inputs[name].items) :
            /\ inputs[name].items[i].touched
            /\ inputs[name].items[i].dirty
            /\ inputs[name].items[i].state = "done"
            /\ BaseKeys \subseteq DOMAIN inputs[name].items[i].validity

\* C14 witness: a result with a list for `low` and the entry of the absent `high`
C14_Witness ==
    /\ Resolved
    /\ "high" \in Declared
    /\ inputs["low"].kind = "list"
    /\ Len(inputs["low"].items) = 2
    /\ submittedValues["high"] = NullEntry
    /\ inputs["high"].kind = "scalar"
    /\ inputs["high"].items[1].touched
    /\ inputs["high"].items[1].state = "done"
    /\ inputs["low"].items[2].dirty

\* ---------------------------------------------------------------------
\* Errors in custom validations (checked under SpecValidate)

\* the custom validations of the call whose predicate throws on the value
Throwing ==
    {i \in 1..Len(viArgs.customValidations) :
        CustomOutcome(viArgs.customValidations[i].fn, viArgs.value, viArgs.formData) = "throw"}

\* the names of all custom validations of the call, in key order
CustomNames == [i \in 1..Len(viArgs.customValidations) |-> viArgs.customValidations[i].name]

\* the custom validations of the call that do not throw
NotThrowing ==
    SelectSeq(viArgs.customValidations,
              LAMBDA c : CustomOutcome(c.fn, viArgs.value, viArgs.formData) # "throw")

\* C15: when a custom validation throws, validateInput still returns a
\* result: every custom validation of the field has been called, and valid
\* is what the other checks make it.
C15_ThrowingCustomSwallowed ==
    (Called /\ Throwing # {}) =>
        /\ ~viRes.threw
        /\ viRes.called = CustomNames
        /\ viRes.validity["valid"] =
              validateInput(viArgs.validationAttrs, NotThrowing, viArgs.value,
                            viArgs.inputEl, viArgs.formData).validity["valid"]

\* ---------------------------------------------------------------------
\* Errors inside validateServerFormData (checked under SpecServer)

\* the declared fields whose evaluation has failed
FailedFields == {name \in DOMAIN pc : pc[name].st = "threw"}

\* C16: the failure of one field's evaluation does not fail the call: the
\* call is not rejected, and the failing field stays out of inputs and
\* submittedValues.
C16_FieldFailureIsolated ==
    FailedFields # {} =>
        /\ returned # "rejected"
        /\ \A name \in FailedFields :
              inputs[name] = Unset /\ submittedValues[name] = Unset

\* what addValueFromSingleOrMultipleInput leaves after adding the items in order
ShapeOf(items) ==
    IF Len(items) = 0 THEN Unset
    ELSE IF Len(items) = 1 THEN Scalar(items[1])
    ELSE [kind |-> "list", items |-> items]

\* C17: a non-string value submitted under a declared name is skipped: the
\* entries of a submitted field in submittedValues and inputs are those of
\* its string values alone, in order (none at all when it has no string
\* value), and when every declared field is submitted valid is the AND over
\* the validities of the string values.
C17_NonStringSkipped ==
    Resolved =>
        /\ \A name \in Declared :
              FdHas(formData, name) =>
                  /\ submittedValues[name] = ShapeOf(StringValues(name))
                  /\ inputs[name] =
                        ShapeOf([i \in 1..Len(StringValues(name)) |->
                                    SubmittedInfo(name, StringValues(name)[i])])
        /\ (\A name \in Declared : FdHas(formData, name)) =>
              (valid <=> \A name \in Declared :
                            \A i \in 1..Len(StringValues(name)) :
                                SubmittedInfo(name, StringValues(name)[i]).validity["valid"])

\* C17 witness: a file between two strings of `low`, and only a file for `high`
C17_Witness ==
    /\ Resolved
    /\ "high" \in Declared
    /\ FdGetAll(formData, "low") = <<StrV(Brophy), FileV, StrV(<<"5">>)>>
    /\ FdGetAll(formData, "high") = <<FileV>>
    /\ submittedValues["low"].items = <<StrV(Brophy), StrV(<<"5">>)>>
    /\ submittedValues["high"] = Unset
    /\ inputs["high"] = Unset
    /\ RequiredTrue("high")
    /\ valid

----------------------------------------------------------------------------
(* The first render of one useValidatedControl call, with its options *)

\* opts.index
NoIndex == [given |-> FALSE, i |-> 0]
Index(i) == [given |-> TRUE, i |-> i]
IndexChoices == {NoIndex} \cup {Index(i) : i \in -1..2}

\* the field `hobby` of the demo form, rendered once per index
HobbyDef ==
    [validationAttrs |-> <<[attr |-> "required", v |-> BoolV(TRUE)]>>,
     customValidations |-> <<>>]

BindInputs == [n \in {"lastName", "hobby"} |-> IF n = "lastName" THEN LastNameDef ELSE HobbyDef]

\* opts.name: two declared fields and one without a definition
BindNames == {"lastName", "hobby", "nickname"}

\* a Server Form Result as validateServerFormData builds it from the string
\* entries of a submission, lists included
ServerFormInfoOf(id, formInputs, fd) ==
    [id |-> id,
     submittedValues |->
        [n \in DOMAIN formInputs |->
            IF FdHas(fd, n) THEN ShapeOf(fd[n]) ELSE NullEntry],
     inputs |->
        [n \in DOMAIN formInputs |->
            IF FdHas(fd, n)
            THEN ShapeOf([i \in 1..Len(fd[n]) |->
                    InputInfo(fd[n][i],
                        validateInput(formInputs[n].validationAttrs,
                                      formInputs[n].customValidations,
                                      fd[n][i].s, NoEl, fd).validity)])
            ELSE Scalar(InputInfo(NullV,
                    validateInput(formInputs[n].validationAttrs,
                                  formInputs[n].customValidations,
                                  <<>>, NoEl, fd).validity))]]

\* the submissions whose results seed the call: hobby absent, once, twice
BindSubmissions ==
    {[n \in {"lastName", "hobby"} |-> IF n = "lastName" THEN l ELSE h] :
        l \in {<<StrV(<<>>)>>, <<StrV(Brophy)>>},
        h \in {<<>>, <<StrV(<<"a">>)>>, <<StrV(<<"a">>), StrV(<<>>)>>}}

BindSeeds == {ServerFormInfoOf(1, BindInputs, fd) : fd \in BindSubmissions}

\* how a render ends: an error thrown, or the state and refs of the hook
Thrown(error) == [threw |-> TRUE, error |-> error, control |-> <<>>]
Rendered(c) == [threw |-> FALSE, error |-> "", control |-> c]

\* a hook that takes the first member of a list when no index is usable
useValidatedControlLenient(form, sfi, name, index) ==
    IF form = NoForm THEN Thrown("formDefinition")
    ELSE IF name \notin DOMAIN form.inputs THEN Thrown("inputDef")
    ELSE IF sfi.id # 0 /\ sfi.inputs[name].kind = "list"
    THEN LET i == IF index.given /\ index.i >= 0 /\ index.i < Len(sfi.inputs[name].items)
                  THEN index.i ELSE 0
             sv == sfi.submittedValues[name].items[i + 1]
             validity == sfi.inputs[name].items[i + 1].validity
         IN  Rendered([InitialControl(NoServerFormInfo, name) EXCEPT
                        !.value = IF Truthy(sv) THEN sv.s ELSE <<>>,
                        !.dirty = TRUE, !.touched = TRUE, !.validationState = "done",
                        !.validity = validity,
                        !.currentErrorMessages = getCurrentErrorMessages(validity),
                        !.prevServerFormInfo = sfi.id])
    ELSE Rendered(InitialControl(sfi, name))

\* useValidatedControl from its first line to the end of the state
\* initialisation: the invariants on the form definition, the field's
\* definition and the shape of the seed, then the initial state
useValidatedControl(form, sfi, name, index) ==
    IF form = NoForm THEN Thrown("formDefinition")
    ELSE IF name \notin DOMAIN form.inputs THEN Thrown("inputDef")
    ELSE IF sfi.id # 0 /\ (sfi.inputs[name].kind = "list"
                           \/ sfi.submittedValues[name].kind = "list")
    THEN IF ~(sfi.inputs[name].kind = "list" /\ sfi.submittedValues[name].kind = "list")
         THEN Thrown("structure")
         ELSE IF ~(index.given /\ index.i >= 0) THEN Thrown("index")
         ELSE IF index.i >= Len(sfi.inputs[name].items) THEN Thrown("TypeError")
         ELSE LET sv == sfi.submittedValues[name].items[index.i + 1]
                  validity == sfi.inputs[name].items[index.i + 1].validity
              IN  Rendered([InitialControl(NoServerFormInfo, name) EXCEPT
                             !.value = IF Truthy(sv) THEN sv.s ELSE <<>>,
                             !.dirty = TRUE, !.touched = TRUE, !.validationState = "done",
                             !.validity = validity,
                             !.currentErrorMessages = getCurrentErrorMessages(validity),
                             !.prevServerFormInfo = sfi.id])
    ELSE IF sfi.id # 0 /\ sfi.inputs[name].kind = "unset" THEN Thrown("TypeError")
    ELSE Rendered(InitialControl(sfi, name))

\* getInputDefaultValue(name, serverFormInfo, index): the defaultValue of
\* the control ("" stands for none)
getInputDefaultValue(sfi, name, index) ==
    IF sfi.id = 0 \/ name \notin DOMAIN sfi.submittedValues THEN <<>>
    ELSE IF sfi.submittedValues[name].kind = "list"
    THEN (IF index.i + 1 \in 1..Len(sfi.submittedValues[name].items)
          THEN sfi.submittedValues[name].items[index.i + 1].s ELSE <<>>)
    ELSE IF sfi.submittedValues[name].kind = "scalar"
    THEN sfi.submittedValues[name].items[1].s
    ELSE <<>>

PendingHook(name, index) == [st |-> "pending", name |-> name, index |-> index, error |-> ""]

\* one hook call about to render: with or without a form definition, with
\* or without a seed
BindInit ==
    /\ ValidateIdle
    /\ ServerIdle
    /\ \E name \in BindNames, index \in IndexChoices :
          /\ hook = PendingHook(name, index)
          /\ \/ sessionForm = NoForm /\ serverFormInfo = NoServerFormInfo
             \/ /\ sessionForm = [inputs |-> BindInputs, controls |-> {name}, formRef |-> TRUE]
                /\ serverFormInfo \in {NoServerFormInfo} \cup BindSeeds
    /\ control = [n \in {} |-> <<>>]
    /\ elValue = [n \in {} |-> <<>>]
    /\ uncommitted = {}
    /\ mounted = FALSE

\* the first render of the component that calls the hook
BindRender ==
    /\ hook.st = "pending"
    /\ LET r == useValidatedControl(sessionForm, serverFormInfo, hook.name, hook.index)
       IN  IF r.threw
           THEN /\ hook' = [hook EXCEPT !.st = "threw", !.error = r.error]
                /\ UNCHANGED <<control, elValue>>
           ELSE /\ hook' = [hook EXCEPT !.st = "rendered"]
                /\ control' = [n \in {hook.name} |-> r.control]
                /\ elValue' = [n \in {hook.name} |->
                        getInputDefaultValue(serverFormInfo, hook.name, hook.index)]
    /\ UNCHANGED <<sessionForm, serverFormInfo, uncommitted, mounted>>
    /\ UNCHANGED <<validateVars, serverVars>>

\* the first commit of a rendered hook: its validation effect runs
BindMount ==
    /\ hook.st = "rendered"
    /\ ~mounted
    /\ mounted' = TRUE
    /\ control' = [n \in DOMAIN control |->
            MountEffect(control[n], n, serverFormInfo, FormSnapshot,
                        RenderedAttrs(n, FirstRenderFormData(serverFormInfo)))]
    /\ UNCHANGED <<sessionForm, serverFormInfo, elValue, uncommitted, hook>>
    /\ UNCHANGED <<validateVars, serverVars>>

BindNext ==
    \/ BindRender
    \/ BindMount
    \/ \E name \in DOMAIN control : \E i \in 1..MaxInFlight : ValidationSettles(name, i)

SpecBind == BindInit /\ [][BindNext]_vars

\* the render of the hook has ended, one way or the other
RenderEnded == hook.st \in {"rendered", "threw"}

\* the seed holds a list for the field the hook is bound to
SeedHoldsList ==
    /\ serverFormInfo.id # 0
    /\ hook.name \in DOMAIN serverFormInfo.submittedValues
    /\ serverFormInfo.submittedValues[hook.name].kind = "list"

\* C18: the render of useValidatedControl throws when no form definition is
\* available, when the form definition has no entry for the name, and when
\* the seed holds a list for the field and no non-negative index is given;
\* a render that threw has started no validation: there is no state of the
\* control, nothing is awaited and no effect has run.
C18_BindingFailsFast ==
    RenderEnded =>
        /\ sessionForm = NoForm => hook.st = "threw"
        /\ hook.name \notin DOMAIN sessionForm.inputs => hook.st = "threw"
        /\ (SeedHoldsList /\ ~(hook.index.given /\ hook.index.i >= 0)) => hook.st = "threw"
        /\ hook.st = "threw" => (control = [n \in {} |-> <<>>] /\ ~mounted)

\* C18 witness: bound to `hobby`, seeded with two values, index -1
C18_Witness ==
    /\ hook.st = "threw"
    /\ hook.name = "hobby"
    /\ hook.index = Index(-1)
    /\ SeedHoldsList
    /\ ~mounted

\* ---------------------------------------------------------------------
\* Error messages of the live session (checked under Spec)

\* the flags other than valid that are true in a validity
FailingFlags(validity) == {k \in DOMAIN validity \ {"valid"} : validity[k]}

\* C19: in every state of a live session the keys of info.errorMessages are
\* exactly the flags other than valid that are true in info.validity (none:
\* errorMessages is absent), also right after a server result was adopted.
C19_MessagesMatchValidity ==
    \A n \in DOMAIN control :
        control[n].currentErrorMessages = FailingFlags(control[n].validity)

\* ---------------------------------------------------------------------
\* Error message resolution (checked under SpecMessages)

\* the keys a message may be declared for, and a validity may flag, here
MsgKeys == {"valueMissing", "tooShort", "mustBeBrophy"}

\* the field the messages are built for
MsgName == "lastName"

\* the resolved constraint values of the field: required, minLength 5
MsgAttrs ==
    <<[attr |-> "required", v |-> BoolV(TRUE)], [attr |-> "minLength", v |-> NumV(5)]>>

\* an author's function template; it reports what it was called with
AuthorTemplate == FnV("author")

\* per key: no entry, the empty string, a static string, a function template
MessageChoices(level, k) ==
    IF k = "mustBeBrophy" THEN {UndefV, StrV(<<level, k>>)}
    ELSE {UndefV, StrV(<<>>), StrV(<<level, k>>), AuthorTemplate}

\* the errorMessages objects of a level ("field " or "form ")
ErrorMessageMaps(level) ==
    {m \in [MsgKeys -> UNION {MessageChoices(level, k) : k \in MsgKeys}] :
        \A k \in MsgKeys : m[k] \in MessageChoices(level, k)}

\* a validity whose true flags other than valid are `flags`
ValidityFlagging(flags) ==
    [k \in BaseKeys \cup {"mustBeBrophy"} |->
        IF k = "valid" THEN flags = {} ELSE k \in flags]

\* the attributes the rendering puts on the control: a true boolean attribute
\* is present with the empty string, a false one is left off, every other
\* value is its string
HtmlAttributes(renderedAttrs) ==
    LET on == {i \in 1..Len(renderedAttrs) : renderedAttrs[i].v.t # "false"}
    IN  [a \in {renderedAttrs[i].attr : i \in on} |->
            LET i == CHOOSE j \in on : renderedAttrs[j].attr = a
            IN  IF renderedAttrs[i].v.t = "true" THEN <<>> ELSE ToStr(renderedAttrs[i].v)]

NoInputEl == [kind |-> "none", attributes |-> [a \in {} |-> <<>>]]
InputEl(renderedAttrs) == [kind |-> "el", attributes |-> HtmlAttributes(renderedAttrs)]

\* inputEl.getAttribute(attr)
getAttribute(el, attr) ==
    IF attr \in DOMAIN el.attributes THEN StrV(el.attributes[attr]) ELSE NullV

\* the constraint whose flag is `validation` ("undefined": none)
builtInValidityToAttrMapping(validation) ==
    IF \E a \in Attrs : domKey(a) = validation
    THEN CHOOSE a \in Attrs : domKey(a) = validation
    ELSE "undefined"

\* builtInValidations[attr]?.errorMessage
builtInErrorMessage(attr) ==
    IF attr \in Attrs THEN FnV(attr) ELSE UndefV

\* `${x}` of a template argument
Interpolate(x) == IF x.t = "undefined" THEN <<"undefined">> ELSE ToStr(x)

\* message(attrValue, name, value) for a function template
CallMessage(message, attrValue, name, value) ==
    LET f == message.s[1]
    IN  CASE f = "required" -> StrV(<<"Field is required">>)
          [] f = "minLength" ->
                StrV(<<"Value must be at least ">> \o Interpolate(attrValue) \o <<" characters">>)
          [] f = "maxLength" ->
                StrV(<<"Value must be at most ">> \o Interpolate(attrValue) \o <<" characters">>)
          [] f = "min" ->
                StrV(<<"Value must be greater than or equal to ">> \o Interpolate(attrValue))
          [] f = "max" ->
                StrV(<<"Value must be less than or equal to ">> \o Interpolate(attrValue))
          [] f = "pattern" -> StrV(<<"Value does not match the expected pattern">>)
          [] f = "type" ->
                IF attrValue.t = "string" /\ attrValue.s = TypeNumber
                THEN StrV(<<"Invalid number">>) ELSE StrV(<<"Invalid value">>)
          [] OTHER ->
                StrV(<<"author(">> \o Interpolate(attrValue) \o <<",", name, ",">>
                     \o value \o <<")">>)

\* a || b
Or(a, b) == IF Truthy(a) THEN a ELSE b

\* currentValidationAttrs?.[attr]
AttrOf(currentValidationAttrs, attr) ==
    IF \E i \in 1..Len(currentValidationAttrs) : currentValidationAttrs[i].attr = attr
    THEN currentValidationAttrs[CHOOSE i \in 1..Len(currentValidationAttrs) :
                                    currentValidationAttrs[i].attr = attr].v
    ELSE UndefV

\* the message of one flag, the form-level entry looked up first
MessageOfFormFirst(fieldMessages, formMessages, inputName, inputValue, validation, currentValidationAttrs, inputEl) ==
    LET attr == builtInValidityToAttrMapping(validation)
        message == Or(Or(formMessages[validation], fieldMessages[validation]),
                      builtInErrorMessage(attr))
        attrValue == IF inputEl.kind = "el" THEN getAttribute(inputEl, attr)
                     ELSE AttrOf(currentValidationAttrs, attr)
    IN  IF message.t = "function"
        THEN CallMessage(message,
                         IF IsNullish(attrValue) THEN UndefV ELSE StrV(ToStr(attrValue)),
                         inputName, inputValue)
        ELSE message

\* the message of one flag: the body of the reduce in getCurrentErrorMessages
MessageOf(fieldMessages, formMessages, inputName, inputValue, validation, currentValidationAttrs, inputEl) ==
    LET attr == builtInValidityToAttrMapping(validation)
        message == Or(Or(fieldMessages[validation], formMessages[validation]),
                      builtInErrorMessage(attr))
        attrValue == IF inputEl.kind = "el" THEN getAttribute(inputEl, attr)
                     ELSE AttrOf(currentValidationAttrs, attr)
    IN  IF message.t = "function"
        THEN CallMessage(message,
                         IF IsNullish(attrValue) THEN UndefV ELSE StrV(ToStr(attrValue)),
                         inputName, inputValue)
        ELSE message

\* getCurrentErrorMessages with the message of every key (the empty function
\* stands for undefined)
CurrentErrorMessages(fieldMessages, formMessages, inputName, inputValue, validity, currentValidationAttrs, inputEl) ==
    [k \in getCurrentErrorMessages(validity) |->
        MessageOf(fieldMessages, formMessages, inputName, inputValue, k,
                  currentValidationAttrs, inputEl)]

\* the calls the hook makes: for the initial state with the rendered
\* attributes and no element, after a client validation with the element only
MessageCalls ==
    {[called |-> TRUE, fieldMessages |-> fm, formMessages |-> gm, inputName |-> MsgName,
      inputValue |-> v, validity |-> ValidityFlagging(flags),
      currentValidationAttrs |-> src[1], inputEl |-> src[2]] :
        fm \in ErrorMessageMaps("field "), gm \in ErrorMessageMaps("form "), v \in {<<>>, Bro},
        flags \in SUBSET MsgKeys,
        src \in {<<MsgAttrs, NoInputEl>>, <<<<>>, InputEl(MsgAttrs)>>}}

MessagesInit ==
    /\ msgArgs \in MessageCalls
    /\ msgRes = [called |-> FALSE]
    /\ viArgs = NoArgs
    /\ viRes = NoResult
    /\ LoopIdle
    /\ ServerIdle
    /\ SessionIdle

CallGetCurrentErrorMessages ==
    /\ msgArgs.called
    /\ ~msgRes.called
    /\ msgRes' = [called |-> TRUE,
                  messages |-> CurrentErrorMessages(msgArgs.fieldMessages, msgArgs.formMessages,
                                   msgArgs.inputName, msgArgs.inputValue, msgArgs.validity,
                                   msgArgs.currentValidationAttrs, msgArgs.inputEl)]
    /\ UNCHANGED <<viArgs, viRes, msgArgs, loop, serverVars, sessionVars>>

MessagesNext == CallGetCurrentErrorMessages

SpecMessages == MessagesInit /\ [][MessagesNext]_vars

\* the resolved constraint value behind a flag, as a string (undefined: none)
ResolvedConstraint(validation) ==
    LET v == AttrOf(MsgAttrs, builtInValidityToAttrMapping(validation))
    IN  IF IsNullish(v) THEN UndefV ELSE StrV(ToStr(v))

\* a template put to use: a function is called, a string is taken as it is
Use(message, attrValue) ==
    IF message.t = "function"
    THEN CallMessage(message, attrValue, msgArgs.inputName, msgArgs.inputValue)
    ELSE message

\* the first of the three sources that has an entry for the key
FirstEntry(validation) ==
    IF msgArgs.fieldMessages[validation] # UndefV THEN msgArgs.fieldMessages[validation]
    ELSE IF msgArgs.formMessages[validation] # UndefV THEN msgArgs.formMessages[validation]
    ELSE builtInErrorMessage(builtInValidityToAttrMapping(validation))

\* the first of the three sources that has a non-empty entry for the key
FirstTruthyEntry(validation) ==
    Or(Or(msgArgs.fieldMessages[validation], msgArgs.formMessages[validation]),
       builtInErrorMessage(builtInValidityToAttrMapping(validation)))

\* what a function template receives first: the control's attribute when the
\* call is given the control, else the stringified resolved constraint value
TemplateArgument(validation) ==
    IF msgArgs.inputEl.kind = "el"
    THEN LET a == getAttribute(msgArgs.inputEl, builtInValidityToAttrMapping(validation))
         IN  IF IsNullish(a) THEN UndefV ELSE a
    ELSE ResolvedConstraint(validation)

\* C20 as stated: the message of every key is the field's own entry, else the
\* form-level entry, else the built-in default; a function template is called
\* with (stringified resolved constraint value, field name, current value), a
\* string template is used unchanged.
C20_MessageResolutionOrder ==
    msgRes.called =>
        \A k \in DOMAIN msgRes.messages :
            msgRes.messages[k] = Use(FirstEntry(k), ResolvedConstraint(k))

\* C20 amended: an empty entry counts as no entry, and a function template
\* called after a client validation receives the control's attribute string
\* (the empty string for a true `required`), else the stringified resolved
\* constraint value; name and current value follow; a string is used unchanged.
C20_MessageResolutionTruthy ==
    msgRes.called =>
        \A k \in DOMAIN msgRes.messages :
            msgRes.messages[k] = Use(FirstTruthyEntry(k), TemplateArgument(k))

\* C20 witness: the field and the form both declare a tooShort message, the
\* field's a function template, and the field's was used with minLength "5"
C20_Witness ==
    /\ msgRes.called
    /\ "tooShort" \in DOMAIN msgRes.messages
    /\ msgArgs.fieldMessages["tooShort"] = AuthorTemplate
    /\ msgArgs.formMessages["tooShort"] = StrV(<<"form ", "tooShort">>)
    /\ msgArgs.inputValue = Bro
    /\ msgRes.messages["tooShort"] =
           StrV(<<"author(", "5", ",", "lastName", ",", "B", "r", "o", ")">>)

\* ---------------------------------------------------------------------
\* Attribute bags of the live session (checked under Spec)

\* a mutation of shouldShowErrors that does not look at touched
shouldShowErrorsUntouched(validity, state, touched) ==
    /\ "valid" \in DOMAIN validity
    /\ ~validity["valid"]
    /\ state = "done"

\* validity?.valid === false && state === "done" && touched
shouldShowErrors(validity, state, touched) ==
    /\ "valid" \in DOMAIN validity
    /\ ~validity["valid"]
    /\ state = "done"
    /\ touched

\* the class names of an element of a type, as <<type, modifier>> pairs
\* (<<type, "">> is rvs-<type>)
getClasses(info, type) ==
    {<<type, "">>}
    \cup (IF shouldShowErrors(info.validity, info.validationState, info.touched)
          THEN {<<type, "invalid">>} ELSE {})
    \cup (IF info.validationState = "validating" THEN {<<type, "validating">>} ELSE {})
    \cup (IF info.touched THEN {<<type, "touched">>} ELSE {})
    \cup (IF info.dirty THEN {<<type, "dirty">>} ELSE {})

\* the attributes for the control: class names and the aria hints
getControlAttrs(info, controlType) ==
    LET show == shouldShowErrors(info.validity, info.validationState, info.touched)
    IN  [className |-> getClasses(info, controlType),
         ariaInvalid |-> show,
         ariaErrormessage |-> show]

\* the attributes for the label
getLabelAttrs(info) == [className |-> getClasses(info, "label")]

\* the attributes for the element that holds the messages
getErrorsAttrs(info) ==
    [role |-> IF shouldShowErrors(info.validity, info.validationState, info.touched)
              THEN "alert" ELSE "none"]

\* the types an element of a field can have
ElementTypes == {"label", "input", "textarea", "select"}

\* the session's result is invalid, settled and the field was touched
ShowsErrors(c) ==
    /\ c.validity # NoValidity
    /\ ~c.validity["valid"]
    /\ c.validationState = "done"
    /\ c.touched

\* C21: the attribute bags of every field show the invalid indicators (class
\* rvs-<type>--invalid, aria-invalid, aria-errormessage, role=alert) iff
\* validity.valid is false, the state is 'done' and touched is true; they show
\* the class rvs-<type>--validating iff the state is 'validating'; no element
\* carries the invalid and the validating class together.
C21_InvalidIndicators ==
    \A n \in DOMAIN control :
        LET c == control[n]
        IN  /\ \A t \in ElementTypes :
                /\ <<t, "invalid">> \in getClasses(c, t) <=> ShowsErrors(c)
                /\ <<t, "validating">> \in getClasses(c, t)
                       <=> c.validationState = "validating"
                /\ ~({<<t, "invalid">>, <<t, "validating">>} \subseteq getClasses(c, t))
            /\ \A t \in ElementTypes \ {"label"} :
                /\ getControlAttrs(c, t).ariaInvalid <=> ShowsErrors(c)
                /\ getControlAttrs(c, t).ariaErrormessage <=> ShowsErrors(c)
                /\ getControlAttrs(c, t).className = getClasses(c, t)
            /\ getLabelAttrs(c).className = getClasses(c, "label")
            /\ getErrorsAttrs(c).role = "alert" <=> ShowsErrors(c)

\* C21 witness: a touched field with an invalid result is validating again,
\* and shows the validating class without the invalid indicators
C21_Witness ==
    \E n \in DOMAIN control :
        /\ control[n].touched
        /\ control[n].validity # NoValidity
        /\ ~control[n].validity["valid"]
        /\ control[n].validationState = "validating"
        /\ <<"input", "validating">> \in getClasses(control[n], "input")
        /\ ~getControlAttrs(control[n], "input").ariaInvalid

\* ---------------------------------------------------------------------
\* Two declared fields side by side (checked under SpecPair)

\* a field with one built-in constraint (firstName of the demo form, reduced
\* to `required`)
FirstNameDef ==
    [validationAttrs |-> <<[attr |-> "required", v |-> BoolV(TRUE)]>>,
     customValidations |-> <<>>]

\* a form with two declared fields, one of them with an asynchronous custom
\* validation
PairForm ==
    [inputs |-> [n \in {"lastName", "firstName"} |->
                    IF n = "lastName" THEN LastNameDef ELSE FirstNameDef],
     controls |-> {"lastName", "firstName"},
     formRef |-> TRUE]

\* what the user types into the two controls
PairValues(name) == IF name = "lastName" THEN {Bro} ELSE {<<>>, <<"5">>}

\* the submission whose result is handed to the mounted session
PairSeeds(id) ==
    LET fd == [n \in {"lastName", "firstName"} |->
                  IF n = "lastName" THEN <<StrV(Bro)>> ELSE <<StrV(<<>>)>>]
    IN  {[sfi |-> ServerFormInfoFor(id, PairForm.inputs, fd, <<>>), fd |-> fd]}

PairInit ==
    /\ ValidateIdle
    /\ ServerIdle
    /\ UnseededSession(PairForm)
    /\ uncommitted = {}
    /\ mounted = FALSE
    /\ hook = [st |-> "idle"]

PairNext ==
    \/ Mount
    \/ \E name \in Fields : \E v \in PairValues(name) : InputEvent(name, v)
    \/ \E name \in DOMAIN elValue : ChangeEvent(name)
    \/ \E name \in Fields : Blur(name)
    \/ \E name \in Fields : \E i \in 1..MaxInFlight : ValidationSettles(name, i)
    \/ \E seed \in PairSeeds(FreshId) : NewServerFormInfo(seed.sfi)

SpecPair == PairInit /\ [][PairNext]_vars

\* no validation of the field resolves in the step
NoneResolves(a) == Len(control'[a].inflight) >= Len(control[a].inflight)

\* the field is validating, keeps its value, and none of its validations
\* resolves in the step
Hangs(a) ==
    /\ control[a].validationState = "validating"
    /\ control'[a].value = control[a].value
    /\ NoneResolves(a)

\* the step belongs to field a alone: no mount, no new Server Form Result, no
\* change broadcast
OwnStep(a) ==
    /\ control'[a] # control[a]
    /\ mounted' = mounted
    /\ serverFormInfo' = serverFormInfo
    /\ uncommitted \subseteq uncommitted'

SettleCurrent(name) ==
    /\ name \in Fields
    /\ \E i \in 1..MaxInFlight :
        /\ i = Len(control[name].inflight)
        /\ ValidationSettles(name, i)

\* the forms with the derived constraint, with and without the ref to the
\* <form> element
RangeForms == {form \in SessionForms : "high" \in DOMAIN form.inputs}

LiveInit ==
    /\ ValidateIdle
    /\ ServerIdle
    /\ \E form \in RangeForms : UnseededSession(form)
    /\ uncommitted = {}
    /\ mounted = FALSE
    /\ hook = [st |-> "idle"]

LiveNext ==
    \/ Mount
    \/ \E name \in Fields : \E v \in FieldValues(name) : InputEvent(name, v)
    \/ \E name \in DOMAIN elValue : \E v \in FieldValues(name) : SiblingInput(name, v)
    \/ \E name \in DOMAIN elValue : ChangeEvent(name)
    \/ \E name \in Fields : Blur(name)
    \/ \E name \in Fields : \E i \in 1..MaxInFlight : ValidationSettles(name, i)

\* the live session of such a form, in which the awaited validateInput of
\* the field settles
SpecLive == LiveInit /\ [][LiveNext]_vars /\ WF_vars(SettleCurrent("high"))

\* the step delivers a change event to the <form>
ChangeStep == mounted /\ uncommitted' # uncommitted /\ uncommitted' \subseteq uncommitted

\* field n awaits a validation that was started on the snapshot fd with the
\* constraint values recomputed from fd
AwaitsFor(c, n, fd) ==
    /\ c.validationState = "validating"
    /\ c.controller = "pending"
    /\ c.inflight # <<>>
    /\ LET e == c.inflight[Len(c.inflight)]
       IN  /\ ~e.aborted
           /\ e.formData = fd
           /\ e.inputEl = OneEl(BrowserValidity(fd[n][1].s, RenderedAttrs(n, fd)))

\* the snapshots a form with the controls low and high can have
RangeSnapshots ==
    {[n \in {"low", "high"} |-> <<StrV(IF n = "low" THEN l ELSE h)>>] :
        l \in FieldValues("low"), h \in FieldValues("high")}

\* high is below the number typed into low
BelowLow(fd) ==
    /\ fd["low"][1].s # <<>>
    /\ ~NumGe(StringToNumber(fd["high"][1].s), StringToNumber(fd["low"][1].s))

\* the validity of high is the one of the snapshot fd
ReflectsSnapshot(fd) ==
    /\ control["high"].validationState = "done"
    /\ control["high"].validity # NoValidity
    /\ control["high"].validity["rangeUnderflow"] = BelowLow(fd)
    /\ control["high"].validity["valid"] = ~BelowLow(fd)

\* after a change event the validity of high comes to reflect the snapshot,
\* unless the form changes again before
EventuallyReflects ==
    \A fd \in RangeSnapshots :
        (AwaitsFor(control["high"], "high", fd) /\ FormSnapshot = fd)
            ~> (ReflectsSnapshot(fd) \/ FormSnapshot # fd)

\* C23 as stated: in a form with a derivation-function constraint a change
\* event makes every mounted field re-run its validation on the new snapshot
\* with recomputed constraint values.
C23_ChangeBroadcast ==
    [][(hasDynamicAttributes(sessionForm.inputs) /\ ChangeStep) =>
            \A n \in Fields : AwaitsFor(control'[n], n, FormSnapshot)]_vars

\* C23 amended: when the FormProvider was handed the <form> element, a change
\* event in a form with a derivation-function constraint makes every mounted
\* field re-run its validation on the new snapshot with recomputed constraint
\* values, and the dependent field's validity eventually reflects the
\* sibling's new value; without the form element no field re-validates.
C23_ChangeBroadcastWithFormRef ==
    /\ [][ChangeStep =>
            IF ListensForChange(sessionForm)
            THEN \A n \in Fields : AwaitsFor(control'[n], n, FormSnapshot)
            ELSE control' = control]_vars
    /\ EventuallyReflects

\* C23 witness: high holds -5, low was changed to 5, the change event was
\* delivered and high is flagged rangeUnderflow
C23_Witness ==
    /\ sessionForm.formRef
    /\ uncommitted = {}
    /\ elValue["low"] = <<"5">>
    /\ control["high"].value = <<"-", "5">>
    /\ control["high"].validationState = "done"
    /\ control["high"].validity # NoValidity
    /\ control["high"].validity["rangeUnderflow"]

\* ---------------------------------------------------------------------
\* The registry against reference checks (checked under SpecValidate)

\* x < y and x > y on JavaScript numbers: false as soon as one side is NaN
NumLt(x, y) == ~x.nan /\ ~y.nan /\ x.n < y.n
NumGt(x, y) == ~x.nan /\ ~y.nan /\ x.n > y.n

\* the reference check of a length or range constraint
ReferenceFlag(attr, value, attrValue) ==
    CASE attr = "minLength" -> NumLt(Num(Len(value)), StringToNumber(attrValue))
      [] attr = "maxLength" -> NumGt(Num(Len(value)), StringToNumber(attrValue))
      [] attr = "min" -> NumLt(StringToNumber(value), StringToNumber(attrValue))
      [] attr = "max" -> NumGt(StringToNumber(value), StringToNumber(attrValue))

\* C24: data-only, with a non-empty value and a present constraint value,
\* tooShort holds iff the length is less than minLength, tooLong iff it is
\* greater than maxLength, rangeUnderflow iff Number(value) is less than min,
\* rangeOverflow iff Number(value) is greater than max, and typeMismatch is
\* never set (custom validations named apart from the flags).
C24_FlagsEqualReference ==
    (Fulfilled /\ DataOnly /\ CustomNamesApart /\ viArgs.value # <<>>) =>
        /\ ~viRes.validity["typeMismatch"]
        /\ \A i \in 1..Len(viArgs.validationAttrs) :
            LET attr == viArgs.validationAttrs[i].attr
            IN  (/\ attr \in {"minLength", "maxLength", "min", "max"}
                 /\ ResolvedValue(i).t \notin {"null", "undefined"})
                    => viRes.validity[domKey(attr)]
                          = ReferenceFlag(attr, viArgs.value, ToStr(ResolvedValue(i)))

\* ---------------------------------------------------------------------
\* Native validity against the registry (checked under SpecValidate)

\* the i-th declared constraint is skipped by the loop of validateInput
Skipped(i) ==
    LET v == viArgs.validationAttrs[i].v
    IN  IsNullish(calculateValidationAttr(IF Truthy(v) THEN v ELSE NullV, viArgs.formData))

\* C25: with a live control the flag of every declared, non-skipped
\* constraint is the control's native flag of that constraint's key, whatever
\* the registry check would say; without a control the registry check decides
\* (custom validations named apart from the flags).
C25_NativeFlagPreferred ==
    (Fulfilled /\ CustomNamesApart) =>
        \A i \in 1..Len(viArgs.validationAttrs) :
            LET attr == viArgs.validationAttrs[i].attr
            IN  ~Skipped(i) =>
                    /\ viArgs.inputEl.kind = "el" =>
                            viRes.validity[domKey(attr)] = viArgs.inputEl.els[1][domKey(attr)]
                    /\ viArgs.inputEl.kind = "none" =>
                            viRes.validity[domKey(attr)] =
                                ~builtInValidate(attr, viArgs.value, ToStr(ResolvedValue(i)))

\* C25 witness: `required` on an empty value against a control that does not
\* report valueMissing: the flag is the control's, not the registry's
C25_Witness ==
    /\ Fulfilled
    /\ viArgs.inputEl = OneEl(NativeValidity({}))
    /\ viArgs.value = <<>>
    /\ \E i \in 1..Len(viArgs.validationAttrs) :
            viArgs.validationAttrs[i] = [attr |-> "required", v |-> BoolV(TRUE)]
    /\ ~viRes.validity["valueMissing"]
    /\ viRes.validity["valid"]

\* ---------------------------------------------------------------------
\* Custom validations run without short-circuit (checked under SpecValidate)

\* the names of the declared custom validations, in declaration order
DeclaredCustoms ==
    [j \in 1..Len(viArgs.customValidations) |-> viArgs.customValidations[j].name]

\* C26: a validateInput call that returns a result has invoked every declared
\* custom validation, in declaration order, also when a built-in constraint
\* has failed; the result has the built-in flags and one flag per declared
\* custom validation name, true iff its predicate returned false for the
\* value and the snapshot.
C26_CustomsAlwaysRun ==
    Fulfilled =>
        /\ viRes.called = DeclaredCustoms
        /\ DOMAIN viRes.validity = BaseKeys \cup {DeclaredCustoms[j] : j \in DOMAIN DeclaredCustoms}
        /\ \A j \in 1..Len(viArgs.customValidations) :
                viRes.validity[viArgs.customValidations[j].name] =
                    (CustomOutcome(viArgs.customValidations[j].fn,
                                   viArgs.value, viArgs.formData) = "false")

\* C26 witness: lastName "Bro" with required, minLength 5 and mustBeBrophy
\* yields tooShort and mustBeBrophy together
C26_Witness ==
    /\ Fulfilled
    /\ DataOnly
    /\ viArgs.value = Bro
    /\ viArgs.validationAttrs = <<[attr |-> "required", v |-> BoolV(TRUE)],
                                  [attr |-> "minLength", v |-> NumV(5)]>>
    /\ viArgs.customValidations = <<[name |-> "mustBeBrophy", fn |-> "mustBeBrophy"]>>
    /\ viRes.validity["tooShort"]
    /\ viRes.validity["mustBeBrophy"]
    /\ ~viRes.validity["valueMissing"]
    /\ ~viRes.validity["valid"]

\* ---------------------------------------------------------------------
\* The custom validations of one validateInput call, step by step (checked
\* under SpecAsync)

\* the calls that are followed: data-only, with and without built-in
\* constraints
AsyncArgs ==
    [validationAttrs : {<<>>, <<[attr |-> "required", v |-> BoolV(TRUE)],
                                [attr |-> "minLength", v |-> NumV(5)]>>},
     customValidations : CustomChoices,
     value : Values,
     inputEl : {NoEl},
     formData : {[n \in {} |-> <<>>]}]

\* validateInput up to the loop over the custom validations
AsyncInit ==
    /\ viArgs \in AsyncArgs
    /\ viRes = NoResult
    /\ loop = [st |-> "running", next |-> 1, awaiting |-> 0, invoked |-> <<>>,
               validity |-> AttrLoop(getBaseValidityState, viArgs.validationAttrs,
                                     viArgs.value, viArgs.inputEl, viArgs.formData)]
    /\ MessagesIdle
    /\ ServerIdle
    /\ SessionIdle

\* validate(value, formData) of the next custom validation is called and its
\* result awaited
InvokeCustom ==
    /\ loop.st = "running"
    /\ loop.awaiting = 0
    /\ loop.next <= Len(viArgs.customValidations)
    /\ loop' = [loop EXCEPT !.awaiting = loop.next,
                            !.invoked = Append(@, viArgs.customValidations[loop.next].name)]
    /\ UNCHANGED <<viArgs, viRes, msgArgs, msgRes, serverVars, sessionVars>>

\* the awaited custom validation resolves or rejects: its flag is recorded
\* and the loop moves on, or validateInput rejects
CustomSettles ==
    /\ loop.st = "running"
    /\ loop.awaiting # 0
    /\ LET c == viArgs.customValidations[loop.awaiting]
           out == CustomOutcome(c.fn, viArgs.value, viArgs.formData)
       IN  IF out = "throw"
           THEN /\ loop' = [loop EXCEPT !.st = "rejected", !.awaiting = 0]
                /\ viRes' = [threw |-> TRUE, validity |-> loop.validity,
                             called |-> loop.invoked]
           ELSE /\ loop' = [loop EXCEPT !.awaiting = 0,
                                        !.next = @ + 1,
                                        !.validity = CustomStep(@, c.name, out = "false")]
                /\ viRes' = viRes
    /\ UNCHANGED <<viArgs, msgArgs, msgRes, serverVars, sessionVars>>

\* return validity
ReturnValidity ==
    /\ loop.st = "running"
    /\ loop.awaiting = 0
    /\ loop.next > Len(viArgs.customValidations)
    /\ loop' = [loop EXCEPT !.st = "fulfilled"]
    /\ viRes' = [threw |-> FALSE, validity |-> loop.validity, called |-> loop.invoked]
    /\ UNCHANGED <<viArgs, msgArgs, msgRes, serverVars, sessionVars>>

AsyncNext ==
    \/ InvokeCustom
    \/ CustomSettles
    \/ ReturnValidity

SpecAsync == AsyncInit /\ [][AsyncNext]_vars

\* C27: once the first custom validation of a call has been invoked, every
\* declared custom validation has been invoked: a later one does not wait for
\* an earlier one to resolve.
C27_CustomsStartTogether ==
    (loop.st = "running" /\ loop.awaiting # 0) =>
        Len(loop.invoked) = Len(viArgs.customValidations)

\* ---------------------------------------------------------------------
\* Blur and input events of the live session (checked under Spec)

\* the step is a blur on the control of field n: touched becomes true without
\* a new Server Form Result, or the control is touched already
BlurStep(n) ==
    \/ ~control[n].touched /\ control'[n].touched /\ serverFormInfo' = serverFormInfo
    \/ control[n].touched /\ Blur(n)

\* C28: a blur on a field's control sets touched and leaves dirty, value,
\* state, validity and the awaited validations of that field as they are, and
\* every other part of the session too; on a touched field it changes nothing.
C28_BlurOnlyTouches ==
    [][\A n \in Fields :
        BlurStep(n) =>
            /\ control'[n].touched
            /\ control'[n].dirty = control[n].dirty
            /\ control'[n].value = control[n].value
            /\ control'[n].validationState = control[n].validationState
            /\ control'[n].validity = control[n].validity
            /\ control'[n].inflight = control[n].inflight
            /\ control'[n].controller = control[n].controller
            /\ \A m \in Fields \ {n} : control'[m] = control[m]
            /\ elValue' = elValue
            /\ serverFormInfo' = serverFormInfo
            /\ control[n].touched => control' = control]_vars

\* C28 witness: a field that was never edited nor submitted is touched while
\* its validation of the mount is still awaited
C28_Witness ==
    /\ mounted
    /\ serverFormInfo.id = 0
    /\ \E n \in Fields :
        /\ control[n].touched
        /\ ~control[n].dirty
        /\ control[n].prevServerFormInfo = 0
        /\ control[n].validationState = "validating"
        /\ Len(control[n].inflight) = 1

\* the step is an input event on the control of field n
InputStep(n) ==
    \/ control'[n].value # control[n].value
    \/ elValue'[n] # elValue[n]
    \/ n \in uncommitted' \ uncommitted

\* C29: an input event on a field's control sets dirty and makes the
\* session's value the control's value; when the value differs from the
\* previous one the awaited validations are aborted and a validation of the
\* new value is started, the state becoming 'validating' whatever it was;
\* otherwise nothing is started. When a validation that was not aborted
\* resolves, the state becomes 'done' with its validity.
C29_InputStartsValidation ==
    [][\A n \in Fields :
        /\ InputStep(n) =>
            /\ control'[n].dirty
            /\ control'[n].value = elValue'[n]
            /\ control'[n].touched = control[n].touched
            /\ IF control'[n].value # control[n].value
               THEN /\ control'[n].validationState = "validating"
                    /\ Len(control'[n].inflight) = Len(control[n].inflight) + 1
                    /\ LET e == control'[n].inflight[Len(control'[n].inflight)]
                       IN  ~e.aborted /\ e.value = control'[n].value
               ELSE /\ control'[n].validationState = control[n].validationState
                    /\ control'[n].inflight = control[n].inflight
        /\ \A i \in 1..Len(control[n].inflight) :
            (/\ SettlesAt(n, i)
             /\ ~control[n].inflight[i].aborted
             /\ ~ResultOf(n, control[n].inflight[i]).threw) =>
                /\ control[n].validationState = "validating"
                /\ control'[n].validationState = "done"
                /\ control'[n].validity = ResultOf(n, control[n].inflight[i]).validity]_vars

\* C29 witness: lastName was edited to "Brophy" in a session without a Server
\* Form Result and its validation has resolved: dirty, 'done' and valid
C29_Witness ==
    /\ mounted
    /\ serverFormInfo.id = 0
    /\ "lastName" \in DOMAIN control
    /\ control["lastName"].prevServerFormInfo = 0
    /\ control["lastName"].dirty
    /\ control["lastName"].value = Brophy
    /\ control["lastName"].validationState = "done"
    /\ control["lastName"].validity # NoValidity
    /\ control["lastName"].validity["valid"]
    /\ control["lastName"].inflight = <<>>

\* ---------------------------------------------------------------------
\* Checkbox and radio groups (checked under SpecValidate)

\* C30: for a group validated as a list of member controls the flag of every
\* declared, non-skipped constraint is the AND of the members' native flags
\* of that constraint's key (custom validations named apart from the flags).
C30_GroupFlagIsAnd ==
    (Fulfilled /\ CustomNamesApart /\ viArgs.inputEl.kind = "list") =>
        \A i \in 1..Len(viArgs.validationAttrs) :
            LET key == domKey(viArgs.validationAttrs[i].attr)
            IN  ~Skipped(i) =>
                    viRes.validity[key] =
                        (\A m \in 1..Len(viArgs.inputEl.els) : viArgs.inputEl.els[m][key])

\* C30 witness: a required group with one member reporting valueMissing and
\* one not: the group is not flagged
C30_Witness ==
    /\ Fulfilled
    /\ viArgs.inputEl = ListEl(<<NativeValidity({"valueMissing"}), NativeValidity({})>>)
    /\ viArgs.validationAttrs = <<[attr |-> "required", v |-> BoolV(TRUE)]>>
    /\ viArgs.customValidations = <<>>
    /\ ~viRes.validity["valueMissing"]
    /\ viRes.validity["valid"]

\* ---------------------------------------------------------------------
\* The submission rebuilt from a Server Form Result (checked under SpecServer)

\* has the field only string entries in the submission
OnlyStrings(name) ==
    \A i \in 1..Len(FdGetAll(formData, name)) : FdGetAll(formData, name)[i].t = "string"

\* the snapshot rebuilt from the returned submittedValues
Rebuilt == generateFormDataFromServerFormInfo(submittedValues)

\* C31: once validateServerFormData has resolved, the snapshot rebuilt from
\* its submittedValues holds, for every declared field with only string
\* values, exactly the submitted values in their order, and nothing for a
\* field recorded as null.
C31_RebuiltSnapshotLossless ==
    returned = "resolved" =>
        \A name \in Declared :
            /\ OnlyStrings(name) => FdGetAll(Rebuilt, name) = FdGetAll(formData, name)
            /\ submittedValues[name].kind = "null" => ~FdHas(Rebuilt, name)

\* C31 witness: a resolved call on a submission with several string values
\* for one field and none for another, both rebuilt as submitted
C31_Witness ==
    /\ returned = "resolved"
    /\ Declared = Names
    /\ Len(FdGetAll(formData, "low")) = MaxEntries
    /\ OnlyStrings("low")
    /\ FdGetAll(formData, "low")[1] # FdGetAll(formData, "low")[2]
    /\ FdGetAll(Rebuilt, "low") = FdGetAll(formData, "low")
    /\ submittedValues["high"].kind = "null"
    /\ ~FdHas(Rebuilt, "high")

\* ---------------------------------------------------------------------
\* Concurrent calls of validateServerFormData: each call has its own locals
\* (inputs, submittedValues, valid) and its own callback per field

\* the locals of a call right after `entries.map(...)` has started the callbacks
StartCall(fd, def, serverCustom) ==
    [formData |-> fd, formDefinition |-> def, serverCustomValidations |-> serverCustom,
     pc |-> [n \in DOMAIN def |-> Running(0)],
     inputs |-> [n \in DOMAIN def |-> Unset],
     submittedValues |-> [n \in DOMAIN def |-> Unset],
     valid |-> TRUE,
     returned |-> "pending"]

\* can the callback of a field take a turn
CanStep(c, name) ==
    /\ name \in DOMAIN c.formDefinition
    /\ c.pc[name].st = "running"

\* one turn of the callback of a field: the next entry of a submitted field,
\* its return after the last entry, or the else branch of an absent field
FieldStepOf(c, name) ==
    LET def == c.formDefinition[name]
        sc == IF name \in DOMAIN c.serverCustomValidations
              THEN c.serverCustomValidations[name] ELSE <<>>
        values == FdGetAll(c.formData, name)
        i == c.pc[name].i
        fail == [c EXCEPT !.pc[name].st = "threw",
                          !.returned = IF @ = "pending" THEN "rejected" ELSE @]
    IN  IF FdHas(c.formData, name)
        THEN IF i < Len(values)
             THEN LET value == values[i + 1]
                      r == validateInput(def.validationAttrs,
                                         SpreadOver(def.customValidations, sc),
                                         value.s, NoEl, c.formData)
                  IN  IF value.t # "string" THEN [c EXCEPT !.pc[name].i = @ + 1]
                      ELSE IF r.threw THEN fail
                      ELSE [c EXCEPT
                              !.inputs[name] = addValueFromSingleOrMultipleInput(
                                                   @, InputInfo(value, r.validity)),
                              !.submittedValues[name] =
                                  addValueFromSingleOrMultipleInput(@, value),
                              !.valid = (@ /\ r.validity["valid"] = TRUE),
                              !.pc[name].i = @ + 1]
             ELSE [c EXCEPT !.pc[name].st = "done"]
        ELSE LET r == validateInput(def.validationAttrs, def.customValidations,
                                    <<>>, NoEl, c.formData)
             IN  IF r.threw THEN fail
                 ELSE [c EXCEPT !.inputs[name] = Scalar(InputInfo(NullV, r.validity)),
                                !.submittedValues[name] = NullEntry,
                                !.pc[name].st = "done"]

\* Promise.all is fulfilled and the call returns its locals
CanReturn(c) ==
    /\ c.returned = "pending"
    /\ \A n \in DOMAIN c.formDefinition : c.pc[n].st = "done"

ReturnOf(c) == [c EXCEPT !.returned = "resolved"]

\* a turn that keeps `valid` in one place shared by the calls
ConcurrentFieldStepSharedValid(k, name) ==
    /\ k \in DOMAIN calls
    /\ CanStep(calls[k], name)
    /\ LET next == FieldStepOf(calls[k], name)
       IN  calls' = [j \in DOMAIN calls |->
                        IF j = k THEN next ELSE [calls[j] EXCEPT !.valid = next.valid]]
    /\ UNCHANGED <<validateVars, sessionVars, formData, formDefinition,
                   serverCustomValidations, pc, inputs, submittedValues, valid, returned>>

\* the callback of a field of the k-th call takes a turn
ConcurrentFieldStep(k, name) ==
    /\ k \in DOMAIN calls
    /\ CanStep(calls[k], name)
    /\ calls' = [calls EXCEPT ![k] = FieldStepOf(calls[k], name)]
    /\ UNCHANGED <<validateVars, sessionVars, formData, formDefinition,
                   serverCustomValidations, pc, inputs, submittedValues, valid, returned>>

\* the k-th call returns
ConcurrentReturn(k) ==
    /\ k \in DOMAIN calls
    /\ CanReturn(calls[k])
    /\ calls' = [calls EXCEPT ![k] = ReturnOf(calls[k])]
    /\ UNCHANGED <<validateVars, sessionVars, formData, formDefinition,
                   serverCustomValidations, pc, inputs, submittedValues, valid, returned>>

\* the forms and submissions of the concurrent calls
ConcurrentForms ==
    {[n \in Names |-> IF n = "low" THEN d ELSE e] :
        d \in {x \in LowDefs : x.customValidations # <<>>},
        e \in {x \in HighDefs : Len(x.validationAttrs) = 2}}

ConcurrentSubmissions ==
    {[n \in Names |-> IF n = "low" THEN l ELSE h] :
        l \in {<<>>, <<StrV(<<"5">>)>>, <<StrV(Brophy), StrV(<<>>)>>, <<FileV, StrV(<<"5">>)>>},
        h \in {<<>>, <<StrV(<<"5">>)>>}}

ConcurrentInit ==
    /\ ValidateIdle
    /\ SessionIdle
    /\ CallIdle
    /\ \E def \in ConcurrentForms, sc \in ServerCustomChoices :
       \E fd1 \in ConcurrentSubmissions :
       \E fd2 \in ConcurrentSubmissions \ {fd1} :
           calls = <<StartCall(fd1, def, sc), StartCall(fd2, def, sc)>>

ConcurrentNext ==
    \/ \E k \in 1..2, name \in Names : ConcurrentFieldStep(k, name)
    \/ \E k \in 1..2 : ConcurrentReturn(k)

SpecConcurrent == ConcurrentInit /\ [][ConcurrentNext]_vars

\* the same call run alone, its callbacks taking their turns one field after
\* the other
RECURSIVE RunAlone(_)
RunAlone(c) ==
    LET ready == {n \in DOMAIN c.formDefinition : CanStep(c, n)}
    IN  IF ready # {}
        THEN RunAlone(FieldStepOf(c, CHOOSE n \in ready : \A m \in ready : n = m \/ n = "low"))
        ELSE IF CanReturn(c) THEN ReturnOf(c) ELSE c

\* what a call hands to its caller
Outcome(c) ==
    IF c.returned = "resolved"
    THEN [returned |-> "resolved", submittedValues |-> c.submittedValues,
          inputs |-> c.inputs, valid |-> c.valid]
    ELSE [returned |-> c.returned]

Alone(c) == RunAlone(StartCall(c.formData, c.formDefinition, c.serverCustomValidations))

\* C32: whatever the order in which the callbacks of two concurrent calls on
\* different submissions take their turns, a call that has settled hands to
\* its caller what the same call hands over when run alone, and no step
\* changes a call's submission, form definition or server-only validations.
C32_CallsIndependent ==
    /\ [](\A k \in DOMAIN calls :
            calls[k].returned # "pending" => Outcome(calls[k]) = Outcome(Alone(calls[k])))
    /\ [][\A k \in DOMAIN calls :
            /\ calls'[k].formData = calls[k].formData
            /\ calls'[k].formDefinition = calls[k].formDefinition
            /\ calls'[k].serverCustomValidations = calls[k].serverCustomValidations]_vars

\* C32 witness: two calls on different submissions have both resolved, one
\* valid and one not, the second call's fields having finished first
C32_Witness ==
    /\ calls # <<>>
    /\ calls[1].returned = "resolved"
    /\ calls[2].returned = "resolved"
    /\ calls[1].formData # calls[2].formData
    /\ calls[1].valid
    /\ ~calls[2].valid
    /\ Outcome(calls[1]) = Outcome(Alone(calls[1]))
    /\ Outcome(calls[2]) = Outcome(Alone(calls[2]))

\* ---------------------------------------------------------------------
\* The session comes to rest (checked under SpecQuiet)

\* what the user types while the session is followed to its rest
QuietValues(name) ==
    IF name = "lastName" THEN {<<>>, Brophy}
    ELSE IF name = "low" THEN {<<>>, <<"5">>}
    ELSE {<<"-", "5">>}

QuietForms == {form \in SessionForms : form.formRef}

\* the results of the submissions handed to the session
QuietSeeds(id, form) ==
    LET fd == [n \in form.controls |-> <<StrV(IF n = "low" THEN <<"5">> ELSE <<>>)>>]
    IN  {[sfi |-> ServerFormInfoFor(id, form.inputs, fd, <<>>), fd |-> fd]}

QuietInit ==
    /\ ValidateIdle
    /\ ServerIdle
    /\ \E form \in QuietForms :
          \/ UnseededSession(form)
          \/ \E seed \in QuietSeeds(1, form) : SeededSession(form, seed)
    /\ uncommitted = {}
    /\ mounted = FALSE
    /\ hook = [st |-> "idle"]

QuietNext ==
    \/ Mount
    \/ \E name \in Fields : \E v \in QuietValues(name) : InputEvent(name, v)
    \/ \E name \in DOMAIN elValue : \E v \in QuietValues(name) : SiblingInput(name, v)
    \/ \E name \in DOMAIN elValue : ChangeEvent(name)
    \/ \E name \in Fields : Blur(name)
    \/ \E name \in Fields : \E i \in 1..MaxInFlight : ValidationSettles(name, i)
    \/ \E seed \in QuietSeeds(FreshId, sessionForm) : NewServerFormInfo(seed.sfi)
    \/ NewServerFormInfo(NoServerFormInfo)

\* an awaited validateInput settles
AnySettles == \E name \in Fields : \E i \in 1..MaxInFlight : ValidationSettles(name, i)

\* the session in which every awaited validateInput settles in the end
SpecQuiet == QuietInit /\ [][QuietNext]_vars /\ WF_vars(AnySettles)

\* a value change, a form-wide change or a new server result arrives
ArrivalStep ==
    \/ \E name \in Fields : \E v \in QuietValues(name) : InputEvent(name, v)
    \/ \E name \in DOMAIN elValue : ChangeEvent(name)
    \/ \E seed \in QuietSeeds(FreshId, sessionForm) : NewServerFormInfo(seed.sfi)
    \/ NewServerFormInfo(NoServerFormInfo)

\* the snapshots of the form in which field n holds the value v
SnapshotsWith(n, v) ==
    {fd \in [DOMAIN elValue -> {<<StrV(x)>> : x \in UNION {QuietValues(m) : m \in DOMAIN elValue}}] :
        fd[n] = <<StrV(v)>>}

\* the validities validateInput computes for the current value of field n
LatestValidities(n) ==
    {validateInput(sessionForm.inputs[n].validationAttrs,
                   sessionForm.inputs[n].customValidations,
                   control[n].value,
                   OneEl(BrowserValidity(control[n].value, RenderedAttrs(n, fd))),
                   fd).validity : fd \in SnapshotsWith(n, control[n].value)}

\* field n awaits a validation that was not aborted
Awaiting(n) == \E i \in 1..Len(control[n].inflight) : ~control[n].inflight[i].aborted

\* C33 as stated: when value changes, form-wide changes and new server
\* results stop arriving, every mounted field ends in state 'done' with the
\* validity computed for its latest value.
C33_RestsOnLatestValidity ==
    \/ []<><<ArrivalStep>>_vars
    \/ <>[](mounted => \A n \in Fields :
                /\ control[n].validationState = "done"
                /\ control[n].validity \in LatestValidities(n))

\* C33 amended: when those events stop arriving, every mounted field ends in
\* state 'done' with no validation awaited un-aborted; an un-aborted
\* validation is the youngest one and the one of the field's current value,
\* its settling stores its result with state 'done', and the settling of an
\* aborted one stores nothing, so that the validity at rest is the one of the
\* latest value unless a server result was adopted after it was started.
C33_RestsDone ==
    /\ \/ []<><<ArrivalStep>>_vars
       \/ <>[](mounted => \A n \in Fields :
                   control[n].validationState = "done" /\ ~Awaiting(n))
    /\ [](\A n \in Fields : \A i \in 1..Len(control[n].inflight) :
            ~control[n].inflight[i].aborted =>
                /\ i = Len(control[n].inflight)
                /\ control[n].inflight[i].value = control[n].value)
    /\ [][\A n \in Fields : \A i \in 1..Len(control[n].inflight) :
            (SettlesAt(n, i) /\ control'[n].value = control[n].value) =>
                IF control[n].inflight[i].aborted
                THEN /\ control'[n].validity = control[n].validity
                     /\ control'[n].validationState = control[n].validationState
                ELSE /\ control'[n].validity = ResultOf(n, control[n].inflight[i]).validity
                     /\ control'[n].validationState = "done"]_vars

\* C33 witness: the value was changed, its validation has settled, and the
\* field rests in 'done' with the validity of that value
C33_Witness ==
    /\ mounted
    /\ sessionForm.controls = {"lastName"}
    /\ control["lastName"].value = Brophy
    /\ control["lastName"].validationState = "done"
    /\ control["lastName"].inflight = <<>>
    /\ control["lastName"].validity \in LatestValidities("lastName")
    /\ control["lastName"].validity["valid"]

\* ---------------------------------------------------------------------
\* Client validations in flight at the adoption of a server result (checked
\* under Spec)

\* every validation field n awaits has been aborted
AllAborted(c) == \A i \in 1..Len(c.inflight) : c.inflight[i].aborted

\* C34: the effect run that adopts a fresh server result leaves every
\* validation in flight aborted and none started, and the settling of an
\* aborted validation changes neither the validity nor the state, so the
\* adopted server validity and 'done' stay.
C34_InFlightAbortedAtAdoption ==
    [][\A n \in Fields :
        /\ SeesNewServerResult(n) =>
              /\ Len(control'[n].inflight) = Len(control[n].inflight)
              /\ AllAborted(control'[n])
              /\ control'[n].validationState = "done"
              /\ control'[n].validity = serverValidity(serverFormInfo', n)
        /\ \A i \in 1..Len(control[n].inflight) :
              (SettlesAt(n, i) /\ control[n].inflight[i].aborted) =>
                  /\ control'[n].validity = control[n].validity
                  /\ control'[n].validationState = control[n].validationState]_vars

\* C34 witness: a validation of a value typed after the submission is still
\* awaited, aborted, while the field shows the adopted server validity
C34_Witness ==
    /\ mounted
    /\ serverFormInfo.id # 0
    /\ "lastName" \in Fields
    /\ control["lastName"].prevServerFormInfo = serverFormInfo.id
    /\ control["lastName"].inflight # <<>>
    /\ AllAborted(control["lastName"])
    /\ control["lastName"].inflight[Len(control["lastName"].inflight)].value = Brophy
    /\ control["lastName"].validationState = "done"
    /\ control["lastName"].validity = serverValidity(serverFormInfo, "lastName")
    /\ ~control["lastName"].validity["valid"]

\* ---------------------------------------------------------------------
\* touched and dirty over the life of a session (checked under Spec)

\* C35: no step of the live session (blur, value change, form-wide change,
\* settling of a validation, aborted or not, new or withdrawn server result)
\* takes touched or dirty of a field back to false.
C35_TouchedDirtyMonotonic ==
    [][\A n \in Fields :
        /\ control[n].touched => control'[n].touched
        /\ control[n].dirty => control'[n].dirty]_vars

\* C35 witness: a field touched and edited by the user, after a server result
\* was adopted and withdrawn again and its validations have settled
C35_Witness ==
    /\ mounted
    /\ "lastName" \in Fields
    /\ serverFormInfo.id = 0
    /\ control["lastName"].prevServerFormInfo = 0
    /\ control["lastName"].validity # NoValidity
    /\ "mustBeMatt" \in DOMAIN control["lastName"].validity
    /\ control["lastName"].touched
    /\ control["lastName"].dirty
    /\ control["lastName"].inflight = <<>>

\* ---------------------------------------------------------------------
\* 'idle' is an initial state only (checked under Spec)

\* C36: no step of the live session takes the state of a field from
\* 'validating' or 'done' back to 'idle'.
C36_NeverBackToIdle ==
    [][\A n \in Fields :
        control[n].validationState # "idle" => control'[n].validationState # "idle"]_vars

\* C36 witness: after a server result was adopted and withdrawn, a value
\* change has cancelled one validation and started another: 'validating'
C36_Witness ==
    /\ mounted
    /\ "lastName" \in Fields
    /\ serverFormInfo.id = 0
    /\ control["lastName"].prevServerFormInfo = 0
    /\ control["lastName"].touched
    /\ Len(control["lastName"].inflight) = 2
    /\ control["lastName"].inflight[1].aborted
    /\ ~control["lastName"].inflight[2].aborted
    /\ control["lastName"].validationState = "validating"

\* ---------------------------------------------------------------------
\* Seeding a session with the returned result (checked under SpecServer)

\* the returned Server Form Result and the form it is rendered with
ReturnedResult == [id |-> 1, submittedValues |-> submittedValues, inputs |-> inputs]
RenderedForm == [inputs |-> formDefinition, controls |-> Declared, formRef |-> TRUE]

\* the indexes that are valid for a field of the returned result
ValidIndexes(name) ==
    IF inputs[name].kind = "list"
    THEN {Index(i - 1) : i \in 1..Len(inputs[name].items)}
    ELSE {NoIndex}

\* C37: for every result validateServerFormData returns, every declared
\* field has an inputs entry, inputs[name] and submittedValues[name] are both
\* lists or both not, and the first render of useValidatedControl seeded with
\* the result does not throw for any declared field and valid index.
C37_ReturnedResultSeeds ==
    Resolved =>
        \A name \in Declared :
            /\ inputs[name] # Unset
            /\ inputs[name].kind = "list" <=> submittedValues[name].kind = "list"
            /\ \A index \in ValidIndexes(name) :
                  ~useValidatedControl(RenderedForm, ReturnedResult, name, index).threw

\* ---------------------------------------------------------------------
\* Server-only custom validations (checked under SpecServer)

\* C38: in every returned result the validity of a declared field holds one
\* flag for each of the field's server-only custom validations and for each
\* of its own ones, and a failing server-only validation makes the field's
\* valid and the form's valid false.
C38_ServerOnlyApplied ==
    Resolved =>
        \A name \in Declared :
            \A k \in 1..Len(inputs[name].items) :
                LET validity == inputs[name].items[k].validity
                    own == formDefinition[name].customValidations
                    serverOnly == ServerCustomFor(name)
                IN  /\ \A i \in 1..Len(own) : own[i].name \in DOMAIN validity
                    /\ \A i \in 1..Len(serverOnly) :
                          /\ serverOnly[i].name \in DOMAIN validity
                          /\ validity[serverOnly[i].name] =>
                                (~validity["valid"] /\ ~valid)

====
